---- MODULE Spec2Model ----
(***************************************************************************)
(* Balance, inventory and purchase services of the store bot               *)
(* (src/ext/balance_manager.py, src/ext/cache_manager.py, src/ext/trx.py,  *)
(* src/ext/base_handler.py, src/ext/constants.py).                         *)
(*                                                                         *)
(* The bot runs on one asyncio event loop: a coroutine runs without        *)
(* interruption between two awaits.  Every action below is the stretch of  *)
(* one coroutine between two suspension points; tasks interleave only      *)
(* between actions.  All rows of the transactions table carry today's      *)
(* date (the model covers one calendar day).                               *)
(***************************************************************************)
EXTENDS Integers, Sequences, FiniteSets, TLC

(***************************************************************************)
(* Program constants                                                       *)
(***************************************************************************)
RATE_DL == 100
RATE_BGL == 10000
MAX_AMOUNT == 1000000
DEFAULT_DAILY_LIMIT == 1000000

(***************************************************************************)
(* Bounds of the model                                                     *)
(***************************************************************************)
MaxDelta == 2
SmallLimit == 3
MaxStock == 2
MaxQty == 2

Tasks == {"t1", "t2"}
Growids == {"A", "B"}

TYPE_ADMIN_ADD == "admin_add"
TYPE_DEPOSIT == "deposit"
TYPE_PURCHASE == "purchase"
TYPE_TRANSFER_IN == "transfer_in"
TYPE_TRANSFER_OUT == "transfer_out"
TYPE_TRANSFER_ROLLBACK == "transfer_rollback"

OK == "ok"
NONE == "none"
BALANCE_LOCKED == "BALANCE_LOCKED"
DAILY_LIMIT_EXCEEDED == "DAILY_LIMIT_EXCEEDED"
LOCK_ACQUISITION_FAILED == "LOCK_ACQUISITION_FAILED"
BALANCE_NOT_FOUND == "BALANCE_NOT_FOUND"
INVALID_AMOUNT == "INVALID_AMOUNT"
INSUFFICIENT_BALANCE == "INSUFFICIENT_BALANCE"
INVALID_TRANSFER == "INVALID_TRANSFER"
TRANSACTION_FAILED == "TRANSACTION_FAILED"
\* the call did not return: it raised UnboundLocalError to its caller
UNBOUND_LOCAL == "UnboundLocalError"
NOT_REGISTERED == "NOT_REGISTERED"
INVALID_QUANTITY == "Invalid quantity (must be between 1-999)"
NO_STOCK == "No stock available"
STOCK_UPDATE_FAILED == "Failed to update all stock items"

STATUS_AVAILABLE == "available"
STATUS_SOLD == "sold"
STATUS_DELETED == "deleted"

(***************************************************************************)
(* Balance (constants.py)                                                  *)
(***************************************************************************)
Max(a, b) == IF a >= b THEN a ELSE b
Abs(x) == IF x >= 0 THEN x ELSE -x

Balance(wl, dl, bgl) == [wl |-> Max(0, wl), dl |-> Max(0, dl), bgl |-> Max(0, bgl)]
ZeroBalance == Balance(0, 0, 0)
total_wl(b) == b.wl + (b.dl * RATE_DL) + (b.bgl * RATE_BGL)
\* a validation without the upper bound
validate_unbounded(b) == 0 <= total_wl(b)
\* Balance.validate (constants.py 161-164)
validate(b) == 0 <= total_wl(b) /\ total_wl(b) <= MAX_AMOUNT

Delta(wl, dl, bgl) == [wl |-> wl, dl |-> dl, bgl |-> bgl]
\* wl + (dl * 100) + (bgl * 10000): the signed WL-equivalent of a delta
amount_wl(d) == d.wl + (d.dl * 100) + (d.bgl * 10000)

(***************************************************************************)
(* State                                                                   *)
(***************************************************************************)
VARIABLES
    users,            \* table users: growid -> row (exists = FALSE: no row)
    transactions,     \* table transactions, in insertion order
    balanceCache,     \* cache entries balance_<growid> (NONE: no entry)
    lockStatusCache,  \* cache entries lock_status_<growid> (NONE: no entry)
    dailyLimitCache,  \* cache entries daily_limit_<growid> (NONE: no entry)
    locks,            \* keys of BaseLockHandler._locks that are locked
    task,             \* the coroutines: position and local variables
    users0,           \* history: the users table of the initial state
    stock,            \* table stock of the product: id -> row
    productCache,     \* cache entry product_<code>
    identity,         \* table user_growid: discord id -> growid (NONE: no row)
    products,         \* table products: the row of the product
    dailyUsage,       \* table daily_usage: growid -> amount of today
    stockCountCache,  \* cache entry stock_count_<code>
    batch,            \* process_batch_transaction: its list, loop and results
    sweep,            \* monitor_pending_transactions: position and locals
    pending,          \* rows of transactions selected by the sweep's query
    historyCache,     \* trx_history_<growid> entries of the cache
    productRows,      \* codes of the rows of products besides P01's
    productKeys,      \* codes c besides P01 with a cache entry product_<c>
    trxQueue          \* TransactionQueue: queue, _processing, items taken

vars == <<users, transactions, balanceCache, lockStatusCache, dailyLimitCache,
          locks, task, users0, stock, productCache, identity, products,
          dailyUsage, stockCountCache, batch, sweep, pending, historyCache,
          productRows, productKeys, trxQueue>>

ledger == <<users, transactions>>

NoUser == [exists |-> FALSE, wl |-> 0, dl |-> 0, bgl |-> 0,
           daily_limit |-> 0, is_locked |-> FALSE]
UserRow(wl, dl, bgl, limit) ==
    [exists |-> TRUE, wl |-> wl, dl |-> dl, bgl |-> bgl,
     daily_limit |-> limit, is_locked |-> FALSE]
LockedRow(wl, dl, bgl, limit) ==
    [UserRow(wl, dl, bgl, limit) EXCEPT !.is_locked = TRUE]
RowBalance(g) == Balance(users[g].wl, users[g].dl, users[g].bgl)

Key(kind, a) == <<kind, a>>

lock_never_held(key) == FALSE
\* asyncio.Lock.locked() of self._locks[key]; acquire() waits while it holds
locked(key) == key \in locks

\* A cache entry: has = FALSE when the key is absent
NoEntry(v) == [has |-> FALSE, val |-> v]
Entry(v) == [has |-> TRUE, val |-> v]
\* CacheManager.get: an absent key misses; a present key hits, or misses
\* when its TTL has passed (entries expire passively, checked on read)
Hits(e) == IF e.has THEN {TRUE, FALSE} ELSE {FALSE}

\* table stock: sales is history (how often the row was marked sold since it
\* was last available)
StockIds == 1..MaxStock
StockRow(status, buyer) == [status |-> status, buyer_id |-> buyer, sales |-> 0]
AvailableStock == StockRow(STATUS_AVAILABLE, NONE)
DeletedStock == StockRow(STATUS_DELETED, NONE)

\* table products: the one product of the model, and its price
PRODUCT == "P01"
Price == 1
\* the row of the product: INSERT INTO products leaves status to the schema,
\* which is any value other than 'deleted' (here 'available')
NoProduct == [exists |-> FALSE, status |-> NONE]
ProductRow(status) == [exists |-> TRUE, status |-> status]

\* table user_growid at startup: Discord user ids and the growid each
\* registered (the row exists when the users row of the growid exists)
Buyers == {"1", "2"}
user_growid(u) == IF u = "1" THEN "A" ELSE "B"

\* no batch is running, the sweep is not started, no row is flagged pending
NoBatch == [pc |-> "none", by |-> NONE, input |-> <<>>, i |-> 0,
            results |-> <<>>, order |-> <<>>]
\* TransactionQueue.__init__ (trx.py 128-132); taken and processed are history
NoQueue == [items |-> <<>>, processing |-> FALSE, taken |-> <<>>,
            processed |-> <<>>]
NoSweep == [pc |-> "off", conn |-> NONE, rows |-> {}, handed |-> {},
            attempted |-> {}, sweeps |-> 0]
Background ==
    /\ stockCountCache = NoEntry(0)
    /\ batch = NoBatch
    /\ sweep = NoSweep
    /\ pending = {}
    /\ historyCache = [g \in Growids |-> NoEntry(<<>>)]
    /\ productRows = {}
    /\ productKeys = {}
    /\ trxQueue = NoQueue

IdleTask ==
    [op |-> "idle", pc |-> "done", res |-> NONE,
     g |-> "A", d |-> Delta(0, 0, 0), ty |-> NONE,
     cur |-> ZeroBalance, new |-> ZeroBalance, ures |-> NONE,
     snd |-> "A", rcv |-> "A", amt |-> 0, phase |-> NONE,
     debit |-> NONE, credit |-> NONE, rollback |-> NONE,
     before |-> ZeroBalance,
     user |-> "1", qty |-> 0, sel |-> {}, err |-> NONE,
     key |-> NONE, handle |-> NONE, prior |-> {},
     content |-> NONE, data |-> NONE, alert |-> NONE]

(***************************************************************************)
(* BalanceManagerService: reads                                            *)
(***************************************************************************)
\* get_daily_usage: SUM(ABS(amount_wl)) over today's rows of the growid whose
\* type is neither admin_add nor transfer_rollback
RECURSIVE UsageOf(_, _)
UsageOf(rows, g) ==
    IF rows = <<>> THEN 0
    ELSE (IF /\ Head(rows).growid = g
             /\ Head(rows).type \notin {TYPE_ADMIN_ADD, TYPE_TRANSFER_ROLLBACK}
          THEN Abs(Head(rows).amount_wl) ELSE 0)
         + UsageOf(Tail(rows), g)
get_daily_usage(g) == UsageOf(transactions, g)

\* get_daily_limit and is_balance_locked assign conn only after the cache
\* lookup, and their finally block reads conn: on a cache hit the return is
\* replaced by UnboundLocalError (the except clause does not cover the
\* finally block).  They return a value only on a miss, and the value is the
\* row's (the default when there is no row).
get_daily_limit(g) ==
    IF users[g].exists THEN users[g].daily_limit ELSE DEFAULT_DAILY_LIMIT

is_balance_locked(g) ==
    IF users[g].exists THEN users[g].is_locked ELSE FALSE

\* the cache writes of is_balance_locked and get_daily_limit on a miss
lock_status_filled(g) ==
    [lockStatusCache EXCEPT ![g] = Entry(is_balance_locked(g))]
daily_limit_filled(g) ==
    [dailyLimitCache EXCEPT ![g] = Entry(get_daily_limit(g))]

(***************************************************************************)
(* update_balance, lines 411-427: the new balance or the rejection         *)
(***************************************************************************)
\* "Validate withdrawals": each denomination against its own current value
insufficient(cur, d) ==
    \/ (d.wl < 0 /\ Abs(d.wl) > cur.wl)
    \/ (d.dl < 0 /\ Abs(d.dl) > cur.dl)
    \/ (d.bgl < 0 /\ Abs(d.bgl) > cur.bgl)

unchecked_balance(cur, d) ==
    [err |-> OK,
     new |-> [wl |-> cur.wl + d.wl, dl |-> cur.dl + d.dl, bgl |-> cur.bgl + d.bgl]]

new_balance(cur, d) ==
    LET new == Balance(Max(0, cur.wl + d.wl), Max(0, cur.dl + d.dl),
                       Max(0, cur.bgl + d.bgl))
    IN  IF ~validate(new) THEN [err |-> INVALID_AMOUNT, new |-> new]
        ELSE IF insufficient(cur, d)
             THEN [err |-> INSUFFICIENT_BALANCE, new |-> new]
             ELSE [err |-> OK, new |-> new]

\* the limit check of lines 389-396
over_daily_limit(g, d, ty) ==
    /\ ty # TYPE_ADMIN_ADD
    /\ get_daily_usage(g) + Abs(amount_wl(d)) > get_daily_limit(g)

(***************************************************************************)
(* Return from update_balance to its caller.  No await lies between the    *)
(* return and the caller's next statement, so the caller's continuation    *)
(* up to its next await belongs to the same step.                          *)
(***************************************************************************)
\* transfer_balance, lines 572-604
transfer_continue(r) ==
    IF r.phase = "debit" THEN
        IF r.ures # OK
        THEN [r EXCEPT !.debit = r.ures, !.pc = "done", !.res = r.ures]
        ELSE [r EXCEPT !.debit = OK, !.phase = "credit", !.pc = "ub_locked",
                       !.g = r.rcv, !.d = Delta(r.amt, 0, 0),
                       !.ty = TYPE_TRANSFER_IN, !.ures = NONE]
    ELSE IF r.phase = "credit" THEN
        IF r.ures = OK
        THEN [r EXCEPT !.credit = OK, !.pc = "done", !.res = OK]
        ELSE [r EXCEPT !.credit = r.ures, !.phase = "rollback",
                       !.pc = "ub_locked",
                       !.g = r.snd, !.d = Delta(r.amt, 0, 0),
                       !.ty = TYPE_TRANSFER_ROLLBACK, !.ures = NONE]
    ELSE [r EXCEPT !.rollback = r.ures, !.pc = "done", !.res = r.credit]

\* process_purchase, trx.py 445-462: after the debit
purchase_continue(r) ==
    IF r.ures = OK
    THEN [r EXCEPT !.debit = OK, !.pc = "pp_notify"]
    ELSE [r EXCEPT !.debit = r.ures, !.pc = "pp_compensate"]

AfterUpdate(r) ==
    IF r.op = "transfer" THEN transfer_continue(r)
    ELSE IF r.op = "purchase" THEN purchase_continue(r)
    ELSE [r EXCEPT !.pc = "done", !.res = r.ures]

\* an exception leaves update_balance: transfer_balance has no except
\* clause, so the exception leaves it too (through its finally block);
\* process_purchase catches it without compensating
Raised(r) ==
    IF r.op = "purchase" THEN
        \* trx.py 505-521: logged, re-raised, turned into TRANSACTION_FAILED
        [r EXCEPT !.debit = UNBOUND_LOCAL, !.pc = "pp_fail",
                  !.err = TRANSACTION_FAILED]
    ELSE IF r.op = "transfer" THEN
        IF r.phase = "debit"
        THEN [r EXCEPT !.debit = UNBOUND_LOCAL, !.pc = "done",
                       !.res = UNBOUND_LOCAL]
        ELSE IF r.phase = "credit"
        THEN [r EXCEPT !.credit = UNBOUND_LOCAL, !.pc = "done",
                       !.res = UNBOUND_LOCAL]
        ELSE [r EXCEPT !.rollback = UNBOUND_LOCAL, !.pc = "done",
                       !.res = UNBOUND_LOCAL]
    ELSE [r EXCEPT !.pc = "done", !.res = UNBOUND_LOCAL]

\* the locks the caller's finally block releases when the operation ends
ReleasedAtEnd(n) ==
    IF n.pc = "done" /\ n.op = "transfer"
    THEN {Key("transfer", n.snd), Key("transfer", n.rcv)}
    ELSE {}

Return(t, r, released) ==
    LET n == AfterUpdate(r)
    IN  /\ task' = [task EXCEPT ![t] = n]
        /\ locks' = (locks \ released) \ ReleasedAtEnd(n)

Raise(t, r) ==
    LET n == Raised(r)
    IN  /\ task' = [task EXCEPT ![t] = n]
        /\ locks' = locks \ ReleasedAtEnd(n)

(***************************************************************************)
(* update_balance (balance_manager.py 375-527)                             *)
(***************************************************************************)
InUpdate == {"ub_locked", "ub_limit", "ub_acquire", "ub_read", "ub_write",
             "ub_cache", "ub_release"}

\* lines 385-387: is_balance_locked
UB_CheckLocked(t) ==
    LET r == task[t] IN
    /\ r.pc = "ub_locked"
    /\ \E hit \in Hits(lockStatusCache[r.g]) :
          IF hit THEN
               /\ Raise(t, r)
               /\ UNCHANGED lockStatusCache
          ELSE /\ lockStatusCache' = lock_status_filled(r.g)
               /\ IF is_balance_locked(r.g)
                  THEN Return(t, [r EXCEPT !.ures = BALANCE_LOCKED], {})
                  ELSE /\ task' = [task EXCEPT ![t].pc = "ub_limit"]
                       /\ locks' = locks
    /\ UNCHANGED <<users, transactions, balanceCache, dailyLimitCache, users0, stock, productCache,
                   identity, products, dailyUsage,
                   stockCountCache, batch, sweep, pending, historyCache,
                   productRows, productKeys, trxQueue>>

\* lines 389-396: the daily limit, checked before the lock is taken
UB_CheckLimit(t) ==
    LET r == task[t] IN
    /\ r.pc = "ub_limit"
    /\ IF r.ty = TYPE_ADMIN_ADD THEN
            /\ task' = [task EXCEPT ![t].pc = "ub_acquire"]
            /\ UNCHANGED <<locks, dailyLimitCache>>
       ELSE \E hit \in Hits(dailyLimitCache[r.g]) :
            IF hit THEN
                 /\ Raise(t, r)
                 /\ UNCHANGED dailyLimitCache
            ELSE /\ dailyLimitCache' = daily_limit_filled(r.g)
                 /\ IF over_daily_limit(r.g, r.d, r.ty)
                    THEN Return(t, [r EXCEPT !.ures = DAILY_LIMIT_EXCEEDED], {})
                    ELSE /\ task' = [task EXCEPT ![t].pc = "ub_acquire"]
                         /\ locks' = locks
    /\ UNCHANGED <<users, transactions, balanceCache, lockStatusCache, users0, stock, productCache,
                   identity, products, dailyUsage,
                   stockCountCache, batch, sweep, pending, historyCache,
                   productRows, productKeys, trxQueue>>

\* lines 398-400 with acquire_lock (base_handler.py 17-32)
UB_Acquire(t) ==
    LET r == task[t] IN
    /\ r.pc = "ub_acquire"
    /\ ~locked(Key("balance_update", r.g))
    /\ locks' = locks \cup {Key("balance_update", r.g)}
    /\ task' = [task EXCEPT ![t].pc = "ub_read"]
    /\ UNCHANGED <<users, transactions, balanceCache, lockStatusCache,
                   dailyLimitCache, users0, stock, productCache,
                   identity, products, dailyUsage,
                   stockCountCache, batch, sweep, pending, historyCache,
                   productRows, productKeys, trxQueue>>

\* the wait for a held lock ends in asyncio.TimeoutError: acquire_lock
\* returns None and update_balance returns without touching the lock
UB_AcquireTimeout(t) ==
    LET r == task[t] IN
    /\ r.pc = "ub_acquire"
    /\ locked(Key("balance_update", r.g))
    /\ Return(t, [r EXCEPT !.ures = LOCK_ACQUISITION_FAILED], {})
    /\ UNCHANGED <<users, transactions, balanceCache, lockStatusCache,
                   dailyLimitCache, users0, stock, productCache,
                   identity, products, dailyUsage,
                   stockCountCache, batch, sweep, pending, historyCache,
                   productRows, productKeys, trxQueue>>

\* lines 411-427 applied to the balance that get_balance returned
Decide(t, r, cur) ==
    LET nb == new_balance(cur, r.d) IN
    IF nb.err # OK
    THEN Return(t, [r EXCEPT !.cur = cur, !.ures = nb.err],
                {Key("balance_update", r.g)})
    ELSE /\ task' = [task EXCEPT ![t].cur = cur, ![t].new = nb.new,
                                 ![t].pc = "ub_write"]
         /\ locks' = locks

\* lines 404-427: get_balance (315-373) and the computation of the new
\* balance.  get_balance starts with is_balance_locked: on a hit of the
\* lock-status cache the UnboundLocalError reaches the except clause of
\* update_balance (lines 518-522), which returns TRANSACTION_FAILED.  Every
\* return here passes the finally block, which releases the lock.
UB_Read(t) ==
    LET r == task[t]
        key == Key("balance_update", r.g)
    IN
    /\ r.pc = "ub_read"
    /\ \E lhit \in Hits(lockStatusCache[r.g]) :
          IF lhit THEN
               /\ Return(t, [r EXCEPT !.ures = TRANSACTION_FAILED], {key})
               /\ UNCHANGED <<lockStatusCache, balanceCache>>
          ELSE /\ lockStatusCache' = lock_status_filled(r.g)
               /\ IF is_balance_locked(r.g) THEN
                       /\ Return(t, [r EXCEPT !.ures = BALANCE_LOCKED], {key})
                       /\ UNCHANGED balanceCache
                  ELSE \E bhit \in Hits(balanceCache[r.g]) :
                       IF bhit THEN
                            /\ Decide(t, r, balanceCache[r.g].val)
                            /\ UNCHANGED balanceCache
                       ELSE IF locked(Key("balance", r.g)) THEN
                            /\ Return(t, [r EXCEPT !.ures = LOCK_ACQUISITION_FAILED],
                                      {key})
                            /\ UNCHANGED balanceCache
                       ELSE IF ~users[r.g].exists THEN
                            /\ Return(t, [r EXCEPT !.ures = BALANCE_NOT_FOUND], {key})
                            /\ UNCHANGED balanceCache
                       ELSE /\ balanceCache' =
                                  [balanceCache EXCEPT ![r.g] = Entry(RowBalance(r.g))]
                            /\ Decide(t, r, RowBalance(r.g))
    /\ UNCHANGED <<users, transactions, dailyLimitCache, users0, stock, productCache,
                   identity, products, dailyUsage,
                   stockCountCache, batch, sweep, pending, historyCache,
                   productRows, productKeys, trxQueue>>

\* lines 452-458: UPDATE users SET balance_wl, balance_dl, balance_bgl
balance_written(r) ==
    [users EXCEPT ![r.g].wl = r.new.wl, ![r.g].dl = r.new.dl,
                  ![r.g].bgl = r.new.bgl]

\* lines 460-474: INSERT INTO transactions.  by and overlap are history: the
\* writer, and whether another update_balance of the same growid was in
\* progress at the commit
transaction_inserted(t, r) ==
    Append(transactions,
           [growid |-> r.g, type |-> r.ty, old |-> r.cur, new |-> r.new,
            amount_wl |-> amount_wl(r.d),
            by |-> t,
            overlap |-> \E u \in Tasks \ {t} :
                           /\ task[u].pc \in InUpdate
                           /\ task[u].g = r.g])

\* _update_daily_usage (859-881), called at lines 477-481 for every type but
\* admin_add: it opens a connection of its own, adds ABS(amount) to the
\* daily_usage row of the growid and commits on that connection
daily_usage_added(r) ==
    IF r.ty # TYPE_ADMIN_ADD
    THEN [dailyUsage EXCEPT ![r.g] = @ + Abs(amount_wl(r.d))]
    ELSE dailyUsage

\* _get_recent_transactions (915-941): the rows of the growid of the last
\* five minutes (every row of a run is that recent)
recent_transactions(g) ==
    Cardinality({i \in DOMAIN transactions : transactions[i].growid = g})

\* the two tests of lines 897-902, which need no storage
large_change(old, new) ==
    LET old_total == total_wl(old)
        change == Abs(total_wl(new) - old_total)
    IN  \/ old_total > 0 /\ 2 * change > old_total
        \/ change > 100000

\* _detect_suspicious_activity (883-913); fault: the query of the recent
\* transactions raises, and the except clause of lines 911-913 returns False
detect_suspicious_activity(g, old, new, fault) ==
    IF large_change(old, new) THEN TRUE
    ELSE IF fault THEN FALSE
    ELSE recent_transactions(g) > 5

\* a trigger that lets the exception of a callback through
trigger_propagates(raises) == IF raises THEN "raised" ELSE "returned"
\* BalanceCallbackManager.trigger (58-65): what a callback raises is logged
trigger(raises) == "returned"

\* lines 429-483: the heuristic and the suspicious_activity callbacks, then
\* UPDATE users, INSERT INTO transactions, the daily usage, commit
\* (_update_daily_usage has no await of its own).  An exception that
\* reached the except clause of lines 520-522 would end the call with
\* TRANSACTION_FAILED.  alert is history: what became of the heuristic
UB_WriteWith(t, fault, raises) ==
    LET r == task[t]
        suspicious == detect_suspicious_activity(r.g, r.cur, r.new, fault)
        called == IF suspicious THEN trigger(raises) ELSE "returned"
        alert == IF suspicious
                 THEN (IF raises THEN "callback_raised" ELSE "sent")
                 ELSE (IF fault THEN "detect_raised" ELSE "quiet")
    IN
    /\ r.pc = "ub_write"
    /\ IF called = "raised" THEN
            /\ Return(t, [r EXCEPT !.ures = TRANSACTION_FAILED, !.alert = alert],
                      {Key("balance_update", r.g)})
            /\ UNCHANGED <<users, transactions, dailyUsage>>
       ELSE /\ users' = balance_written(r)
            /\ transactions' = transaction_inserted(t, r)
            /\ dailyUsage' = daily_usage_added(r)
            /\ task' = [task EXCEPT ![t].pc = "ub_cache", ![t].alert = alert]
            /\ locks' = locks
    /\ UNCHANGED <<balanceCache, lockStatusCache, dailyLimitCache,
                   users0, stock, productCache, identity, products,
                   stockCountCache, batch, sweep, pending, historyCache,
                   productRows, productKeys, trxQueue>>

\* the heuristic and the callbacks do not raise
UB_Write(t) == UB_WriteWith(t, FALSE, FALSE)

\* the query of the heuristic raises, or a suspicious_activity callback does
UB_WriteAlertFault(t) ==
    LET r == task[t] IN
    /\ r.pc = "ub_write"
    /\ \/ ~large_change(r.cur, r.new) /\ UB_WriteWith(t, TRUE, FALSE)
       \/ /\ detect_suspicious_activity(r.g, r.cur, r.new, FALSE)
          /\ UB_WriteWith(t, FALSE, TRUE)

\* lines 485-493: the balance cache is overwritten with the new balance and
\* the history entry of the growid is deleted
UB_Cache(t) ==
    LET r == task[t] IN
    /\ r.pc = "ub_cache"
    /\ balanceCache' = [balanceCache EXCEPT ![r.g] = Entry(r.new)]
    /\ historyCache' = [historyCache EXCEPT ![r.g] = NoEntry(<<>>)]
    /\ task' = [task EXCEPT ![t].pc = "ub_release"]
    /\ UNCHANGED <<users, transactions, lockStatusCache, dailyLimitCache,
                   locks, users0, stock, productCache, identity,
                   products,
                   dailyUsage,
                   stockCountCache, batch, sweep, pending,
                   productRows, productKeys, trxQueue>>

\* lines 509-512 and 524-527: success is returned through the finally block
UB_Release(t) ==
    LET r == task[t] IN
    /\ r.pc = "ub_release"
    /\ Return(t, [r EXCEPT !.ures = OK], {Key("balance_update", r.g)})
    /\ UNCHANGED <<users, transactions, balanceCache, lockStatusCache,
                   dailyLimitCache, users0, stock, productCache,
                   identity, products, dailyUsage,
                   stockCountCache, batch, sweep, pending, historyCache,
                   productRows, productKeys, trxQueue>>

(***************************************************************************)
(* Callers of update_balance                                               *)
(***************************************************************************)
\* one currency per call, as the admin commands and the deposit pass it
Deltas ==
    {Delta(w, 0, 0) : w \in (-MaxDelta..MaxDelta) \ {0}}
    \cup {Delta(0, x, 0) : x \in {-1, 1}}
    \cup {Delta(0, 0, x) : x \in {-1, 1}}
UpdateTypes == {TYPE_ADMIN_ADD, TYPE_DEPOSIT}

StartUpdate(t) ==
    /\ task[t].op = "idle"
    /\ \E g \in Growids, d \in Deltas, ty \in UpdateTypes :
          task' = [task EXCEPT ![t] =
                      [IdleTask EXCEPT !.op = "update", !.pc = "ub_locked",
                                       !.g = g, !.d = d, !.ty = ty]]
    /\ UNCHANGED <<users, transactions, balanceCache, lockStatusCache,
                   dailyLimitCache, locks, users0, stock, productCache,
                   identity, products, dailyUsage,
                   stockCountCache, batch, sweep, pending, historyCache,
                   productRows, productKeys, trxQueue>>

(***************************************************************************)
(* transfer_balance (balance_manager.py 529-604)                           *)
(***************************************************************************)
TransferAmounts == 0..MaxDelta

StartTransfer(t) ==
    /\ task[t].op = "idle"
    /\ \E s \in Growids, r \in Growids, a \in TransferAmounts :
          task' = [task EXCEPT ![t] =
                      [IdleTask EXCEPT !.op = "transfer", !.pc = "tr_validate",
                                       !.snd = s, !.rcv = r, !.amt = a,
                                       !.before = RowBalance(s)]]
    /\ UNCHANGED <<users, transactions, balanceCache, lockStatusCache,
                   dailyLimitCache, locks, users0, stock, productCache,
                   identity, products, dailyUsage,
                   stockCountCache, batch, sweep, pending, historyCache,
                   productRows, productKeys, trxQueue>>

\* lines 536-551: input validation and the two is_balance_locked checks
\* (not inside a try block: an exception leaves the call)
TR_Validate(t) ==
    LET r == task[t]
        fail(e) == task' = [task EXCEPT ![t].pc = "done", ![t].res = e]
    IN
    /\ r.pc = "tr_validate"
    /\ IF r.snd = r.rcv THEN
            fail(INVALID_TRANSFER) /\ UNCHANGED lockStatusCache
       ELSE IF r.amt <= 0 THEN
            fail(INVALID_AMOUNT) /\ UNCHANGED lockStatusCache
       ELSE \E shit \in Hits(lockStatusCache[r.snd]) :
            IF shit THEN
                 fail(UNBOUND_LOCAL) /\ UNCHANGED lockStatusCache
            ELSE IF is_balance_locked(r.snd) THEN
                 /\ fail(BALANCE_LOCKED)
                 /\ lockStatusCache' = lock_status_filled(r.snd)
            ELSE \E rhit \in Hits(lockStatusCache[r.rcv]) :
                 IF rhit THEN
                      /\ fail(UNBOUND_LOCAL)
                      /\ lockStatusCache' = lock_status_filled(r.snd)
                 ELSE /\ lockStatusCache' =
                            [lockStatusCache EXCEPT
                                ![r.snd] = Entry(is_balance_locked(r.snd)),
                                ![r.rcv] = Entry(is_balance_locked(r.rcv))]
                      /\ IF is_balance_locked(r.rcv)
                         THEN fail(BALANCE_LOCKED)
                         ELSE task' = [task EXCEPT ![t].pc = "tr_lock_sender"]
    /\ UNCHANGED <<users, transactions, balanceCache, dailyLimitCache, locks,
                   users0, stock, productCache, identity, products, dailyUsage,
                   stockCountCache, batch, sweep, pending, historyCache,
                   productRows, productKeys, trxQueue>>

\* lines 554-556: acquire_lock("transfer_<sender>")
TR_LockSender(t) ==
    LET r == task[t] IN
    /\ r.pc = "tr_lock_sender"
    /\ ~locked(Key("transfer", r.snd))
    /\ locks' = locks \cup {Key("transfer", r.snd)}
    /\ task' = [task EXCEPT ![t].pc = "tr_lock_receiver"]
    /\ UNCHANGED <<users, transactions, balanceCache, lockStatusCache,
                   dailyLimitCache, users0, stock, productCache,
                   identity, products, dailyUsage,
                   stockCountCache, batch, sweep, pending, historyCache,
                   productRows, productKeys, trxQueue>>

TR_LockSenderTimeout(t) ==
    LET r == task[t] IN
    /\ r.pc = "tr_lock_sender"
    /\ locked(Key("transfer", r.snd))
    /\ task' = [task EXCEPT ![t].pc = "done",
                            ![t].res = LOCK_ACQUISITION_FAILED]
    /\ UNCHANGED <<users, transactions, balanceCache, lockStatusCache,
                   dailyLimitCache, locks, users0, stock, productCache,
                   identity, products, dailyUsage,
                   stockCountCache, batch, sweep, pending, historyCache,
                   productRows, productKeys, trxQueue>>

\* lines 558-566: acquire_lock("transfer_<receiver>"), then the debit
\* update_balance is entered
TR_LockReceiver(t) ==
    LET r == task[t] IN
    /\ r.pc = "tr_lock_receiver"
    /\ ~locked(Key("transfer", r.rcv))
    /\ locks' = locks \cup {Key("transfer", r.rcv)}
    /\ task' = [task EXCEPT ![t].pc = "ub_locked", ![t].phase = "debit",
                            ![t].g = r.snd, ![t].d = Delta(-r.amt, 0, 0),
                            ![t].ty = TYPE_TRANSFER_OUT]
    /\ UNCHANGED <<users, transactions, balanceCache, lockStatusCache,
                   dailyLimitCache, users0, stock, productCache,
                   identity, products, dailyUsage,
                   stockCountCache, batch, sweep, pending, historyCache,
                   productRows, productKeys, trxQueue>>

\* lines 559-561: the wait timed out; the sender's lock is released
wait_without_bound(t) == FALSE

TR_LockReceiverTimeout(t) ==
    LET r == task[t] IN
    /\ r.pc = "tr_lock_receiver"
    /\ locked(Key("transfer", r.rcv))
    /\ locks' = locks \ {Key("transfer", r.snd)}
    /\ task' = [task EXCEPT ![t].pc = "done",
                            ![t].res = LOCK_ACQUISITION_FAILED]
    /\ UNCHANGED <<users, transactions, balanceCache, lockStatusCache,
                   dailyLimitCache, users0, stock, productCache,
                   identity, products, dailyUsage,
                   stockCountCache, batch, sweep, pending, historyCache,
                   productRows, productKeys, trxQueue>>

TransferStep(t) ==
    \/ TR_Validate(t)
    \/ TR_LockSender(t)
    \/ TR_LockSenderTimeout(t)
    \/ TR_LockReceiver(t)
    \/ TR_LockReceiverTimeout(t)

(***************************************************************************)
(* process_purchase (trx.py 354-521) with the inventory service            *)
(* (cache_manager.py 301-512).  A failure inside the inner try block is    *)
(* logged and announced (an await) before the finally block releases the   *)
(* purchase lock: the failing step records the error in err and moves to   *)
(* pp_fail.                                                                *)
(***************************************************************************)
RECURSIVE FirstRows(_, _)
\* the first k rows of S in the order of the table scan (by id)
FirstRows(S, k) ==
    IF k = 0 \/ S = {} THEN {}
    ELSE LET m == CHOOSE x \in S : \A y \in S : x <= y
         IN  {m} \cup FirstRows(S \ {m}, k - 1)

\* get_available_stock, cache_manager.py 416-447
get_available_stock(k) ==
    FirstRows({s \in StockIds : stock[s].status = STATUS_AVAILABLE}, k)

\* the rows the UPDATE of update_stock_status matches (lines 476-486)
matched(ids) == {s \in ids : stock[s].status = STATUS_AVAILABLE}

\* lines 476-486: the rows after the UPDATE
stock_updated(ids, status, buyer) ==
    [s \in StockIds |->
        IF s \in ids
        THEN [status |-> status, buyer_id |-> buyer,
              sales |-> IF status = STATUS_SOLD THEN stock[s].sales + 1 ELSE 0]
        ELSE stock[s]]

\* line 488: cursor.rowcount against the number of ids
all_updated(ids) == Cardinality(matched(ids)) = Cardinality(ids)

\* an update that keeps the rows it matched when some id did not match
partial_update(ids, status, buyer) == stock_updated(matched(ids), status, buyer)
\* lines 476-491: the UPDATE, then rollback unless every id matched
update_stock_status(ids, status, buyer) ==
    IF all_updated(ids) THEN stock_updated(ids, status, buyer) ELSE stock

total_price(r) == Price * r.qty

\* check_daily_limit is called at trx.py 423 and defined nowhere in the
\* repository; it follows the limit rule of the specification
check_daily_limit(g, amount) == get_daily_usage(g) + amount <= get_daily_limit(g)

PurchaseFails(t, r, e) == task' = [task EXCEPT ![t] = [r EXCEPT !.err = e,
                                                                !.pc = "pp_fail"]]

Quantities == 0..MaxQty

StartPurchase(t) ==
    /\ task[t].op = "idle"
    /\ \E u \in Buyers, q \in Quantities :
          task' = [task EXCEPT ![t] = [IdleTask EXCEPT !.op = "purchase",
                                          !.pc = "pp_lock", !.user = u, !.qty = q]]
    /\ UNCHANGED <<users, transactions, balanceCache, lockStatusCache,
                   dailyLimitCache, locks, users0, stock, productCache,
                   identity, products, dailyUsage,
                   stockCountCache, batch, sweep, pending, historyCache,
                   productRows, productKeys, trxQueue>>

\* validate_purchase, trx.py 164-177
valid_quantity(q) == q > 0 /\ q <= 999

\* lines 365-378: validation, then the purchase lock
PP_Lock(t) ==
    LET r == task[t] IN
    /\ r.pc = "pp_lock"
    /\ IF ~valid_quantity(r.qty) THEN
            /\ task' = [task EXCEPT ![t].pc = "done", ![t].res = INVALID_QUANTITY]
            /\ locks' = locks
       ELSE /\ ~locked(Key("purchase", r.user))
            /\ locks' = locks \cup {Key("purchase", r.user)}
            /\ task' = [task EXCEPT ![t].pc = "pp_growid"]
    /\ UNCHANGED <<users, transactions, balanceCache, lockStatusCache,
                   dailyLimitCache, users0, stock, productCache,
                   identity, products, dailyUsage,
                   stockCountCache, batch, sweep, pending, historyCache,
                   productRows, productKeys, trxQueue>>

PP_LockTimeout(t) ==
    LET r == task[t] IN
    /\ r.pc = "pp_lock"
    /\ valid_quantity(r.qty)
    /\ locked(Key("purchase", r.user))
    /\ task' = [task EXCEPT ![t].pc = "done", ![t].res = LOCK_ACQUISITION_FAILED]
    /\ UNCHANGED <<users, transactions, balanceCache, lockStatusCache,
                   dailyLimitCache, locks, users0, stock, productCache,
                   identity, products, dailyUsage,
                   stockCountCache, batch, sweep, pending, historyCache,
                   productRows, productKeys, trxQueue>>

\* get_connection (module database) either returns a connection or raises
Opened == {TRUE, FALSE}

\* lines 384-388: get_growid (balance_manager.py 193-231) takes the lock
\* growid_<id> and reads the link.  conn is assigned inside the try block
\* and the finally block reads it before it releases the lock: when
\* get_connection raises, the finally block raises UnboundLocalError at line
\* 229 and release_lock (line 231) is not reached.
PP_Growid(t) ==
    LET r == task[t]
        g == identity[r.user]
        key == Key("growid", r.user)
    IN
    /\ r.pc = "pp_growid"
    /\ ~locked(key)
    /\ \E opened \in Opened :
          IF ~opened THEN
               /\ locks' = locks \cup {key}
               /\ PurchaseFails(t, r, TRANSACTION_FAILED)
          ELSE IF g # NONE THEN
               /\ locks' = locks \cup {key}
               /\ task' = [task EXCEPT ![t].g = g, ![t].pc = "pp_growid_found"]
          ELSE /\ locks' = locks
               /\ PurchaseFails(t, r, NOT_REGISTERED)
    /\ UNCHANGED <<users, transactions, balanceCache, lockStatusCache,
                   dailyLimitCache, users0, stock, productCache,
                   identity, products, dailyUsage,
                   stockCountCache, batch, sweep, pending, historyCache,
                   productRows, productKeys, trxQueue>>

\* balance_manager.py 200-202
PP_GrowidTimeout(t) ==
    LET r == task[t] IN
    /\ r.pc = "pp_growid"
    /\ locked(Key("growid", r.user))
    /\ PurchaseFails(t, r, LOCK_ACQUISITION_FAILED)
    /\ UNCHANGED <<users, transactions, balanceCache, lockStatusCache,
                   dailyLimitCache, locks, users0, stock, productCache,
                   identity, products, dailyUsage,
                   stockCountCache, batch, sweep, pending, historyCache,
                   productRows, productKeys, trxQueue>>

\* balance_manager.py 214-221 and 228-231: the growid is cached and the lock
\* is released
PP_GrowidFound(t) ==
    LET r == task[t] IN
    /\ r.pc = "pp_growid_found"
    /\ locks' = locks \ {Key("growid", r.user)}
    /\ task' = [task EXCEPT ![t].pc = "pp_product"]
    /\ UNCHANGED <<users, transactions, balanceCache, lockStatusCache,
                   dailyLimitCache, users0, stock, productCache,
                   identity, products, dailyUsage,
                   stockCountCache, batch, sweep, pending, historyCache,
                   productRows, productKeys, trxQueue>>

\* lines 392-396: get_product (cache_manager.py 301-339) assigns conn only
\* after the cache lookup, and its finally block reads conn
PP_Product(t) ==
    LET r == task[t] IN
    /\ r.pc = "pp_product"
    /\ \E hit \in Hits(productCache) :
          IF hit THEN /\ PurchaseFails(t, r, TRANSACTION_FAILED)
                      /\ UNCHANGED productCache
          ELSE /\ productCache' = Entry(Price)
               /\ task' = [task EXCEPT ![t].pc = "pp_stock"]
    /\ UNCHANGED <<users, transactions, balanceCache, lockStatusCache,
                   dailyLimitCache, locks, users0, stock, identity,
                   products,
                   dailyUsage,
                   stockCountCache, batch, sweep, pending, historyCache,
                   productRows, productKeys, trxQueue>>

\* lines 400-406: get_available_stock
PP_Stock(t) ==
    LET r == task[t]
        ids == get_available_stock(r.qty)
    IN
    /\ r.pc = "pp_stock"
    /\ IF ids = {} THEN PurchaseFails(t, r, NO_STOCK)
       ELSE task' = [task EXCEPT ![t].sel = ids, ![t].pc = "pp_balance"]
    /\ UNCHANGED <<users, transactions, balanceCache, lockStatusCache,
                   dailyLimitCache, locks, users0, stock, productCache,
                   identity, products, dailyUsage,
                   stockCountCache, batch, sweep, pending, historyCache,
                   productRows, productKeys, trxQueue>>

\* lines 414-420: get_balance (balance_manager.py 315-373), whose first
\* call, is_balance_locked, raises on a hit of the lock-status cache
PP_Balance(t) ==
    LET r == task[t]
        covers(cur) == total_price(r) <= total_wl(cur)
        checked(cur) ==
            IF covers(cur)
            THEN task' = [task EXCEPT ![t].cur = cur, ![t].pc = "pp_limit"]
            ELSE PurchaseFails(t, r, INSUFFICIENT_BALANCE)
    IN
    /\ r.pc = "pp_balance"
    /\ \E lhit \in Hits(lockStatusCache[r.g]) :
          IF lhit THEN
               /\ PurchaseFails(t, r, TRANSACTION_FAILED)
               /\ UNCHANGED <<lockStatusCache, balanceCache>>
          ELSE /\ lockStatusCache' = lock_status_filled(r.g)
               /\ IF is_balance_locked(r.g) THEN
                       /\ PurchaseFails(t, r, BALANCE_LOCKED)
                       /\ UNCHANGED balanceCache
                  ELSE \E bhit \in Hits(balanceCache[r.g]) :
                       IF bhit THEN
                            /\ checked(balanceCache[r.g].val)
                            /\ UNCHANGED balanceCache
                       ELSE IF locked(Key("balance", r.g)) THEN
                            /\ PurchaseFails(t, r, LOCK_ACQUISITION_FAILED)
                            /\ UNCHANGED balanceCache
                       ELSE IF ~users[r.g].exists THEN
                            /\ PurchaseFails(t, r, BALANCE_NOT_FOUND)
                            /\ UNCHANGED balanceCache
                       ELSE /\ balanceCache' =
                                  [balanceCache EXCEPT ![r.g] = Entry(RowBalance(r.g))]
                            /\ checked(RowBalance(r.g))
    /\ UNCHANGED <<users, transactions, dailyLimitCache, locks, users0, stock,
                   productCache, identity, products, dailyUsage,
                   stockCountCache, batch, sweep, pending, historyCache,
                   productRows, productKeys, trxQueue>>

\* lines 423-428
PP_Limit(t) ==
    LET r == task[t] IN
    /\ r.pc = "pp_limit"
    /\ IF check_daily_limit(r.g, total_price(r))
       THEN task' = [task EXCEPT ![t].pc = "pp_sell"]
       ELSE PurchaseFails(t, r, DAILY_LIMIT_EXCEEDED)
    /\ UNCHANGED <<users, transactions, balanceCache, lockStatusCache,
                   dailyLimitCache, locks, users0, stock, productCache,
                   identity, products, dailyUsage,
                   stockCountCache, batch, sweep, pending, historyCache,
                   productRows, productKeys, trxQueue>>

\* lines 435-442 with update_stock_status (cache_manager.py 449-491): the
\* lock of the product, the conditional UPDATE and its row count
PP_Sell(t) ==
    LET r == task[t]
        key == Key("stock_update", PRODUCT)
    IN
    /\ r.pc = "pp_sell"
    /\ ~locked(key)
    /\ stock' = update_stock_status(r.sel, STATUS_SOLD, r.user)
    /\ IF ~all_updated(r.sel) THEN
            \* the finally block releases the lock
            /\ PurchaseFails(t, r, STOCK_UPDATE_FAILED)
            /\ locks' = locks
       ELSE /\ locks' = locks \cup {key}
            /\ task' = [task EXCEPT ![t].pc = "pp_sold"]
    /\ UNCHANGED <<users, transactions, balanceCache, lockStatusCache,
                   dailyLimitCache, users0, productCache, identity,
                   products,
                   dailyUsage,
                   stockCountCache, batch, sweep, pending, historyCache,
                   productRows, productKeys, trxQueue>>

PP_SellTimeout(t) ==
    LET r == task[t] IN
    /\ r.pc = "pp_sell"
    /\ locked(Key("stock_update", PRODUCT))
    /\ PurchaseFails(t, r, LOCK_ACQUISITION_FAILED)
    /\ UNCHANGED <<users, transactions, balanceCache, lockStatusCache,
                   dailyLimitCache, locks, users0, stock, productCache,
                   identity, products, dailyUsage,
                   stockCountCache, batch, sweep, pending, historyCache,
                   productRows, productKeys, trxQueue>>

\* cache_manager.py 493-512 and trx.py 445-450: the stock cache entries
\* (stock_count_<code>, stock_<code>_q<i>) are deleted, the lock is released,
\* and the debit starts
PP_Sold(t) ==
    LET r == task[t] IN
    /\ r.pc = "pp_sold"
    /\ locks' = locks \ {Key("stock_update", PRODUCT)}
    /\ task' = [task EXCEPT ![t].pc = "ub_locked", ![t].phase = "debit",
                            ![t].d = Delta(-total_price(r), 0, 0),
                            ![t].ty = TYPE_PURCHASE]
    /\ stockCountCache' = NoEntry(0)
    /\ UNCHANGED <<users, transactions, balanceCache, lockStatusCache,
                   dailyLimitCache, users0, stock, productCache, identity,
                   products, dailyUsage, batch, sweep, pending, historyCache,
                   productRows, productKeys, trxQueue>>

\* lines 451-459: the debit returned an error; the rows are handed to
\* update_stock_status again, its result is ignored, and the debit's error
\* is raised
PP_Compensate(t) ==
    LET r == task[t] IN
    /\ r.pc = "pp_compensate"
    /\ ~locked(Key("stock_update", PRODUCT))
    /\ stock' = update_stock_status(r.sel, STATUS_AVAILABLE, NONE)
    /\ stockCountCache' = IF all_updated(r.sel) THEN NoEntry(0)
                          ELSE stockCountCache
    /\ PurchaseFails(t, r, r.debit)
    /\ UNCHANGED <<users, transactions, balanceCache, lockStatusCache,
                   dailyLimitCache, locks, users0, productCache, identity,
                   products, dailyUsage, batch, sweep, pending, historyCache,
                   productRows, productKeys, trxQueue>>

PP_CompensateTimeout(t) ==
    LET r == task[t] IN
    /\ r.pc = "pp_compensate"
    /\ locked(Key("stock_update", PRODUCT))
    /\ PurchaseFails(t, r, r.debit)
    /\ UNCHANGED <<users, transactions, balanceCache, lockStatusCache,
                   dailyLimitCache, locks, users0, stock, productCache,
                   identity, products, dailyUsage,
                   stockCountCache, batch, sweep, pending, historyCache,
                   productRows, productKeys, trxQueue>>

\* lines 462-503 and 514-515: notification and callbacks (their failures
\* are swallowed), the response, and the release of the purchase lock
PP_Notify(t) ==
    LET r == task[t] IN
    /\ r.pc = "pp_notify"
    /\ locks' = locks \ {Key("purchase", r.user)}
    /\ task' = [task EXCEPT ![t].pc = "done", ![t].res = OK]
    /\ UNCHANGED <<users, transactions, balanceCache, lockStatusCache,
                   dailyLimitCache, users0, stock, productCache,
                   identity, products, dailyUsage,
                   stockCountCache, batch, sweep, pending, historyCache,
                   productRows, productKeys, trxQueue>>

\* lines 505-521: the error callback, the release of the purchase lock and
\* the error response
PP_Fail(t) ==
    LET r == task[t] IN
    /\ r.pc = "pp_fail"
    /\ locks' = locks \ {Key("purchase", r.user)}
    /\ task' = [task EXCEPT ![t].pc = "done", ![t].res = r.err]
    /\ UNCHANGED <<users, transactions, balanceCache, lockStatusCache,
                   dailyLimitCache, users0, stock, productCache,
                   identity, products, dailyUsage,
                   stockCountCache, batch, sweep, pending, historyCache,
                   productRows, productKeys, trxQueue>>

PurchaseStep(t) ==
    \/ PP_Lock(t)
    \/ PP_LockTimeout(t)
    \/ PP_Growid(t)
    \/ PP_GrowidTimeout(t)
    \/ PP_GrowidFound(t)
    \/ PP_Product(t)
    \/ PP_Stock(t)
    \/ PP_Balance(t)
    \/ PP_Limit(t)
    \/ PP_Sell(t)
    \/ PP_SellTimeout(t)
    \/ PP_Sold(t)
    \/ PP_Compensate(t)
    \/ PP_CompensateTimeout(t)
    \/ PP_Notify(t)
    \/ PP_Fail(t)

(***************************************************************************)
(* Initial states: the ledger as earlier runs may have left it, empty      *)
(* caches, no lock held, no operation in progress                          *)
(***************************************************************************)
InitRows ==
    {UserRow(MaxDelta, 1, 0, SmallLimit), UserRow(1, 1, 0, DEFAULT_DAILY_LIMIT),
     UserRow(0, 0, 100, DEFAULT_DAILY_LIMIT),
     LockedRow(1, 1, 0, DEFAULT_DAILY_LIMIT)}

InitCommon ==
    /\ transactions = <<>>
    /\ balanceCache = [g \in Growids |-> NoEntry(ZeroBalance)]
    /\ lockStatusCache = [g \in Growids |-> NoEntry(FALSE)]
    /\ dailyLimitCache = [g \in Growids |-> NoEntry(0)]
    /\ locks = {}
    /\ task = [t \in Tasks |-> IdleTask]
    /\ productCache = NoEntry(0)
    /\ products = ProductRow(STATUS_AVAILABLE)
    /\ dailyUsage = [g \in Growids |-> 0]
    /\ Background
    /\ identity = [u \in Buyers |-> IF users[user_growid(u)].exists
                                     THEN user_growid(u) ELSE NONE]

Init ==
    /\ users \in [Growids -> InitRows \cup {NoUser}]
    /\ users0 = users
    /\ stock = [s \in StockIds |-> DeletedStock]
    /\ InitCommon

UpdateStep(t) ==
    \/ UB_CheckLocked(t)
    \/ UB_CheckLimit(t)
    \/ UB_Acquire(t)
    \/ UB_AcquireTimeout(t)
    \/ UB_Read(t)
    \/ UB_Write(t)
    \/ UB_Cache(t)
    \/ UB_Release(t)

Next ==
    \E t \in Tasks :
        \/ StartUpdate(t)
        \/ UpdateStep(t)
        \/ StartTransfer(t)
        \/ TransferStep(t)

Spec == Init /\ [][Next]_vars

(***************************************************************************)
(* The store: purchases, next to balance corrections by an administrator   *)
(***************************************************************************)
AdminDeltas == {Delta(1, 0, 0), Delta(0, 1, 0)}

\* cogs/admin.py 382-395: an administrator adds to a user's balance
StartAdminUpdate(t) ==
    /\ task[t].op = "idle"
    /\ \E g \in Growids, d \in AdminDeltas :
          task' = [task EXCEPT ![t] = [IdleTask EXCEPT !.op = "update",
                                          !.pc = "ub_locked", !.g = g, !.d = d,
                                          !.ty = TYPE_ADMIN_ADD]]
    /\ UNCHANGED <<users, transactions, balanceCache, lockStatusCache,
                   dailyLimitCache, locks, users0, stock, productCache,
                   identity, products, dailyUsage,
                   stockCountCache, batch, sweep, pending, historyCache,
                   productRows, productKeys, trxQueue>>

\* the first n rows of the product are available, the others were deleted
InitStock(n) ==
    [s \in StockIds |-> IF s <= n THEN AvailableStock ELSE DeletedStock]

InitPurchase ==
    /\ users \in [Growids -> InitRows \cup {NoUser}]
    /\ users0 = users
    /\ \E n \in 0..MaxStock : stock = InitStock(n)
    /\ InitCommon

NextPurchase ==
    \E t \in Tasks :
        \/ StartPurchase(t)
        \/ PurchaseStep(t)
        \/ StartAdminUpdate(t)
        \/ UpdateStep(t)

SpecPurchase == InitPurchase /\ [][NextPurchase]_vars

(***************************************************************************)
(* register_user (balance_manager.py 233-313).  The growids of this        *)
(* specification include "a", which differs from "A" only in case, and     *)
(* "xy", which stands for a growid shorter than three characters.          *)
(***************************************************************************)
RegGrowids == Growids \cup {"a"}
ShortGrowids == {"xy"}
GROWID_EXISTS == "GROWID_EXISTS"
INVALID_GROWID == "INVALID_GROWID"

\* LOWER(growid): the growids that differ only in case have one image
LOWER(g) == IF g = "a" THEN "A" ELSE g

\* lines 248-252: SELECT growid FROM users WHERE LOWER(growid) = LOWER(?)
existing(g) == {h \in RegGrowids : users[h].exists /\ LOWER(h) = LOWER(g)}

\* lines 253-254
growid_taken(g) == \E h \in existing(g) : h # g

insert_or_replace(g) ==
    [users EXCEPT ![g] = UserRow(0, 0, 0, DEFAULT_DAILY_LIMIT)]
\* lines 258-271: INSERT OR IGNORE INTO users
insert_or_ignore(g) ==
    IF users[g].exists THEN users
    ELSE [users EXCEPT ![g] = UserRow(0, 0, 0, DEFAULT_DAILY_LIMIT)]

StartRegister(t) ==
    /\ task[t].op = "idle"
    /\ \E u \in Buyers, g \in RegGrowids \cup ShortGrowids :
          task' = [task EXCEPT ![t] =
                      [IdleTask EXCEPT !.op = "register", !.pc = "rg_lock",
                                       !.user = u, !.g = g,
                                       !.prior = {o \in Tasks : task[o].op # "idle"
                                                      /\ task[o].pc = "done"},
                                       !.before = IF g \in RegGrowids
                                                  THEN RowBalance(g)
                                                  ELSE ZeroBalance]]
    /\ UNCHANGED <<users, transactions, balanceCache, lockStatusCache,
                   dailyLimitCache, locks, users0, stock, productCache,
                   identity, products, dailyUsage,
                   stockCountCache, batch, sweep, pending, historyCache,
                   productRows, productKeys, trxQueue>>

\* lines 235-240
RG_Lock(t) ==
    LET r == task[t] IN
    /\ r.pc = "rg_lock"
    /\ IF r.g \in ShortGrowids THEN
            /\ task' = [task EXCEPT ![t].pc = "done", ![t].res = INVALID_GROWID]
            /\ locks' = locks
       ELSE /\ ~locked(Key("register", r.user))
            /\ locks' = locks \cup {Key("register", r.user)}
            /\ task' = [task EXCEPT ![t].pc = "rg_write"]
    /\ UNCHANGED <<users, transactions, balanceCache, lockStatusCache,
                   dailyLimitCache, users0, stock, productCache,
                   identity, products, dailyUsage,
                   stockCountCache, batch, sweep, pending, historyCache,
                   productRows, productKeys, trxQueue>>

RG_LockTimeout(t) ==
    LET r == task[t] IN
    /\ r.pc = "rg_lock"
    /\ r.g \notin ShortGrowids
    /\ locked(Key("register", r.user))
    /\ task' = [task EXCEPT ![t].pc = "done", ![t].res = LOCK_ACQUISITION_FAILED]
    /\ UNCHANGED <<users, transactions, balanceCache, lockStatusCache,
                   dailyLimitCache, locks, users0, stock, productCache,
                   identity, products, dailyUsage,
                   stockCountCache, batch, sweep, pending, historyCache,
                   productRows, productKeys, trxQueue>>

\* lines 244-281: the check of the growid, the two inserts and the commit
\* (no await in between); a rejection returns through the finally block
RG_Write(t) ==
    LET r == task[t] IN
    /\ r.pc = "rg_write"
    /\ IF growid_taken(r.g) THEN
            /\ task' = [task EXCEPT ![t].pc = "done", ![t].res = GROWID_EXISTS]
            /\ locks' = locks \ {Key("register", r.user)}
            /\ UNCHANGED <<users, identity, products, dailyUsage,
                   stockCountCache, batch, sweep, pending, historyCache,
                   productRows, productKeys, trxQueue>>
       ELSE /\ users' = insert_or_ignore(r.g)
            /\ identity' = [identity EXCEPT ![r.user] = r.g]
            /\ task' = [task EXCEPT ![t].pc = "rg_cache"]
            /\ locks' = locks
    /\ UNCHANGED <<transactions, balanceCache, lockStatusCache,
                   dailyLimitCache, users0, stock, productCache,
                   products,
                   dailyUsage,
                   stockCountCache, batch, sweep, pending, historyCache,
                   productRows, productKeys, trxQueue>>

\* lines 283-294: the identity caches are set and balance_<growid> is deleted
RG_Cache(t) ==
    LET r == task[t] IN
    /\ r.pc = "rg_cache"
    /\ balanceCache' = [balanceCache EXCEPT ![r.g] = NoEntry(ZeroBalance)]
    /\ task' = [task EXCEPT ![t].pc = "rg_return"]
    /\ UNCHANGED <<users, transactions, lockStatusCache, dailyLimitCache, locks,
                   users0, stock, productCache, identity, products, dailyUsage,
                   stockCountCache, batch, sweep, pending, historyCache,
                   productRows, productKeys, trxQueue>>

\* lines 296-302 and 310-313: the callback, the response, the release
RG_Return(t) ==
    LET r == task[t] IN
    /\ r.pc = "rg_return"
    /\ locks' = locks \ {Key("register", r.user)}
    /\ task' = [task EXCEPT ![t].pc = "done", ![t].res = OK]
    /\ UNCHANGED <<users, transactions, balanceCache, lockStatusCache,
                   dailyLimitCache, users0, stock, productCache,
                   identity, products, dailyUsage,
                   stockCountCache, batch, sweep, pending, historyCache,
                   productRows, productKeys, trxQueue>>

RegisterStep(t) ==
    \/ RG_Lock(t)
    \/ RG_LockTimeout(t)
    \/ RG_Write(t)
    \/ RG_Cache(t)
    \/ RG_Return(t)

\* users rows as earlier registrations and deposits left them: no two rows
\* differ only in case, every link names a growid that has a row, and no
\* two links name the same growid
RegRows == {NoUser, UserRow(1, 1, 0, DEFAULT_DAILY_LIMIT)}

InitRegister ==
    /\ users \in [RegGrowids -> RegRows]
    /\ ~(users["A"].exists /\ users["a"].exists)
    /\ users0 = users
    /\ identity \in [Buyers -> RegGrowids \cup {NONE}]
    /\ \A u \in Buyers : identity[u] # NONE => users[identity[u]].exists
    /\ \A u, v \in Buyers :
          (u # v /\ identity[u] # NONE) => identity[u] # identity[v]
    /\ transactions = <<>>
    /\ balanceCache = [g \in RegGrowids |-> NoEntry(ZeroBalance)]
    /\ lockStatusCache = [g \in RegGrowids |-> NoEntry(FALSE)]
    /\ dailyLimitCache = [g \in RegGrowids |-> NoEntry(0)]
    /\ locks = {}
    /\ task = [t \in Tasks |-> IdleTask]
    /\ productCache = NoEntry(0)
    /\ products = ProductRow(STATUS_AVAILABLE)
    /\ dailyUsage = [g \in RegGrowids |-> 0]
    /\ Background
    /\ stock = [s \in StockIds |-> DeletedStock]

NextRegister ==
    \E t \in Tasks :
        \/ StartRegister(t)
        \/ RegisterStep(t)

SpecRegister == InitRegister /\ [][NextRegister]_vars

(***************************************************************************)
(* BaseLockHandler (base_handler.py 9-63) under arbitrary callers: each     *)
(* caller calls acquire_lock and release_lock with any key, in any order.   *)
(* handle is what the last acquire_lock of the caller returned.             *)
(***************************************************************************)
LockKeys == {Key(kind, g) : kind \in {"balance_update", "transfer"}, g \in Growids}

timeout_steals(key) == locks \ {key}
\* lines 27-29: the wait was cancelled; the lock is as it was
acquire_timed_out(key) == locks

\* lines 57-63: release() only when the key exists and its lock is locked
release_lock(key) == IF locked(key) THEN locks \ {key} ELSE locks

CallerReady(t) ==
    /\ task[t].op \in {"idle", "acquire_lock", "release_lock"}
    /\ task[t].pc = "done"

\* lines 17-24: the lock of the key is created if absent, and the wait begins
LK_Call(t) ==
    /\ CallerReady(t)
    /\ \E k \in LockKeys :
          task' = [task EXCEPT ![t] = [IdleTask EXCEPT !.op = "acquire_lock",
                                          !.pc = "lk_wait", !.key = k]]
    /\ UNCHANGED <<users, transactions, balanceCache, lockStatusCache,
                   dailyLimitCache, locks, users0, stock, productCache,
                   identity, products, dailyUsage,
                   stockCountCache, batch, sweep, pending, historyCache,
                   productRows, productKeys, trxQueue>>

\* lines 24-26
LK_Acquire(t) ==
    LET r == task[t] IN
    /\ r.pc = "lk_wait"
    /\ ~locked(r.key)
    /\ locks' = locks \cup {r.key}
    /\ task' = [task EXCEPT ![t].pc = "done", ![t].handle = r.key]
    /\ UNCHANGED <<users, transactions, balanceCache, lockStatusCache,
                   dailyLimitCache, users0, stock, productCache,
                   identity, products, dailyUsage,
                   stockCountCache, batch, sweep, pending, historyCache,
                   productRows, productKeys, trxQueue>>

\* lines 27-29
LK_Timeout(t) ==
    LET r == task[t] IN
    /\ r.pc = "lk_wait"
    /\ locked(r.key)
    /\ locks' = acquire_timed_out(r.key)
    /\ task' = [task EXCEPT ![t].pc = "done", ![t].handle = NONE]
    /\ UNCHANGED <<users, transactions, balanceCache, lockStatusCache,
                   dailyLimitCache, users0, stock, productCache,
                   identity, products, dailyUsage,
                   stockCountCache, batch, sweep, pending, historyCache,
                   productRows, productKeys, trxQueue>>

\* lines 57-63
LK_Release(t) ==
    /\ CallerReady(t)
    /\ \E k \in LockKeys :
          /\ locks' = release_lock(k)
          /\ task' = [task EXCEPT ![t] = [IdleTask EXCEPT !.op = "release_lock",
                                             !.key = k]]
    /\ UNCHANGED <<users, transactions, balanceCache, lockStatusCache,
                   dailyLimitCache, users0, stock, productCache,
                   identity, products, dailyUsage,
                   stockCountCache, batch, sweep, pending, historyCache,
                   productRows, productKeys, trxQueue>>

NextLocks ==
    \E t \in Tasks :
        \/ LK_Call(t)
        \/ LK_Acquire(t)
        \/ LK_Timeout(t)
        \/ LK_Release(t)

\* lines 12-15: no lock exists; the tables play no part
InitLocks ==
    /\ users = [g \in Growids |-> NoUser]
    /\ users0 = users
    /\ stock = [s \in StockIds |-> DeletedStock]
    /\ InitCommon

SpecLocks == InitLocks /\ [][NextLocks]_vars

(***************************************************************************)
(* All operations together, from one initial ledger, with the scheduling   *)
(* of the event loop: a coroutine that can take a step (its await has      *)
(* completed, or its bounded wait for a lock has expired) is resumed.      *)
(***************************************************************************)
InitLive ==
    /\ users = [g \in Growids |-> UserRow(MaxDelta, 1, 0, SmallLimit)]
    /\ users0 = users
    /\ stock = InitStock(MaxStock)
    /\ InitCommon

Step(t) == UpdateStep(t) \/ TransferStep(t) \/ PurchaseStep(t)

NextLive ==
    \E t \in Tasks :
        \/ StartAdminUpdate(t)
        \/ StartTransfer(t)
        \/ StartPurchase(t)
        \/ Step(t)

SpecLive ==
    /\ InitLive
    /\ [][NextLive]_vars
    /\ \A t \in Tasks : WF_vars(Step(t))

(***************************************************************************)
(* The catalogue: add_stock, get_product and get_all_products of           *)
(* product_manager.py, and delete_product, get_product and                 *)
(* get_all_products of cache_manager.py.  Both classes share the table     *)
(* products, the table stock, the cache and the lock registry.  The stock  *)
(* rows of this specification carry their content; a raw content with      *)
(* blanks around it, a blank one and one with a line break ("A/B") are     *)
(* among the inputs.                                                       *)
(***************************************************************************)
MAX_STOCK == 999999
CONTENT_EMPTY == "Content cannot be empty"
CONTENT_MULTILINE == "Content must be single line"
STOCK_LIMIT_REACHED == "Stock limit reached"
DUPLICATE_STOCK == "Duplicate stock content detected"
PRODUCT_NOT_FOUND == "PRODUCT_NOT_FOUND"

Contents == {"ABC", "XYZ"}
RawContents == Contents \cup {" ABC ", " ", "A/B"}

\* str.strip()
strip(c) == IF c = " ABC " THEN "ABC" ELSE IF c = " " THEN "" ELSE c
\* '\n' in content
multi_line(c) == c = "A/B"

StockItem(content, status) ==
    [status |-> status, buyer_id |-> NONE, sales |-> 0, content |-> content]

\* _get_stock_count_internal (product_manager.py 671-685)
stock_count == Cardinality({s \in DOMAIN stock : stock[s].status = STATUS_AVAILABLE})

\* the rows that hold content c and are not deleted
holding(c) ==
    {s \in DOMAIN stock : stock[s].content = c /\ stock[s].status # STATUS_DELETED}

no_duplicate_check(c) == FALSE
\* add_stock lines 445-455: SELECT id FROM stock WHERE product_code = ? AND
\* content = ? AND status != 'deleted'
duplicate(c) == holding(c) # {}

CatalogIdle(t) == task[t].op = "idle"
Returned == {o \in Tasks : task[o].op # "idle" /\ task[o].pc = "done"}

\* before and sel are history: the count of available rows and the rows
\* holding the content when the call is made
StartAddStock(t) ==
    /\ CatalogIdle(t)
    /\ \E c \in RawContents :
          task' = [task EXCEPT ![t] =
                      [IdleTask EXCEPT !.op = "add_stock", !.pc = "as_validate",
                                       !.content = c, !.prior = Returned,
                                       !.before = stock_count,
                                       !.sel = holding(strip(c))]]
    /\ UNCHANGED <<users, transactions, balanceCache, lockStatusCache,
                   dailyLimitCache, locks, users0, stock, productCache,
                   identity, products, dailyUsage,
                   stockCountCache, batch, sweep, pending, historyCache,
                   productRows, productKeys, trxQueue>>

\* add_stock lines 416-420
AS_Validate(t) ==
    LET r == task[t]
        c == strip(r.content)
    IN
    /\ r.pc = "as_validate"
    /\ task' = [task EXCEPT ![t] =
                  IF c = "" THEN [r EXCEPT !.pc = "done", !.res = CONTENT_EMPTY]
                  ELSE IF multi_line(c)
                       THEN [r EXCEPT !.pc = "done", !.res = CONTENT_MULTILINE]
                  ELSE [r EXCEPT !.pc = "as_product", !.content = c]]
    /\ UNCHANGED <<users, transactions, balanceCache, lockStatusCache,
                   dailyLimitCache, locks, users0, stock, productCache,
                   identity, products, dailyUsage,
                   stockCountCache, batch, sweep, pending, historyCache,
                   productRows, productKeys, trxQueue>>

\* get_product of product_manager.py (252-306): the cache lookup precedes the
\* try block, and the SELECT has no condition on status.  found is the row
\* returned (NoProduct: PRODUCT_NOT_FOUND), cache the entry product_<code> after
\* the call.
pm_get_product(hit) ==
    IF hit THEN [found |-> productCache.val, cache |-> productCache]
    ELSE IF products.exists THEN [found |-> products, cache |-> Entry(products)]
    ELSE [found |-> NoProduct, cache |-> productCache]

\* add_stock lines 423-430: the product and the stock ceiling
AS_Product(t) ==
    LET r == task[t] IN
    /\ r.pc = "as_product"
    /\ \E hit \in Hits(productCache) :
          LET p == pm_get_product(hit) IN
          /\ productCache' = p.cache
          /\ task' = [task EXCEPT ![t] =
                        IF ~p.found.exists
                        THEN [r EXCEPT !.pc = "done", !.res = PRODUCT_NOT_FOUND]
                        ELSE IF stock_count >= MAX_STOCK
                        THEN [r EXCEPT !.pc = "done", !.res = STOCK_LIMIT_REACHED]
                        ELSE [r EXCEPT !.pc = "as_lock"]]
    /\ UNCHANGED <<users, transactions, balanceCache, lockStatusCache,
                   dailyLimitCache, locks, users0, stock, identity,
                   products,
                   dailyUsage,
                   stockCountCache, batch, sweep, pending, historyCache,
                   productRows, productKeys, trxQueue>>

\* add_stock lines 433-438: the key is stock_add_<code>_<md5 of the content>;
\* the contents of this model have different hashes
AS_Lock(t) ==
    LET r == task[t] IN
    /\ r.pc = "as_lock"
    /\ ~locked(Key("stock_add", r.content))
    /\ locks' = locks \cup {Key("stock_add", r.content)}
    /\ task' = [task EXCEPT ![t].pc = "as_insert"]
    /\ UNCHANGED <<users, transactions, balanceCache, lockStatusCache,
                   dailyLimitCache, users0, stock, productCache, identity,
                   products, dailyUsage,
                   stockCountCache, batch, sweep, pending, historyCache,
                   productRows, productKeys, trxQueue>>

AS_LockTimeout(t) ==
    LET r == task[t] IN
    /\ r.pc = "as_lock"
    /\ locked(Key("stock_add", r.content))
    /\ task' = [task EXCEPT ![t].pc = "done", ![t].res = LOCK_ACQUISITION_FAILED]
    /\ UNCHANGED <<users, transactions, balanceCache, lockStatusCache,
                   dailyLimitCache, locks, users0, stock, productCache,
                   identity, products, dailyUsage,
                   stockCountCache, batch, sweep, pending, historyCache,
                   productRows, productKeys, trxQueue>>

\* add_stock lines 440-465: the duplicate check, the INSERT and the commit
\* (no await in between); a duplicate returns through the finally block
AS_Insert(t) ==
    LET r == task[t] IN
    /\ r.pc = "as_insert"
    /\ IF duplicate(r.content) THEN
            /\ task' = [task EXCEPT ![t].pc = "done", ![t].res = DUPLICATE_STOCK]
            /\ locks' = locks \ {Key("stock_add", r.content)}
            /\ stock' = stock
       ELSE /\ stock' = Append(stock, StockItem(r.content, STATUS_AVAILABLE))
            /\ task' = [task EXCEPT ![t].pc = "as_return"]
            /\ locks' = locks
    /\ UNCHANGED <<users, transactions, balanceCache, lockStatusCache,
                   dailyLimitCache, users0, productCache, identity,
                   products,
                   dailyUsage,
                   stockCountCache, batch, sweep, pending, historyCache,
                   productRows, productKeys, trxQueue>>

\* add_stock lines 467-504: the stock caches are deleted, the count is read
\* again, the callback runs, and the finally block releases the lock
AS_Return(t) ==
    LET r == task[t] IN
    /\ r.pc = "as_return"
    /\ locks' = locks \ {Key("stock_add", r.content)}
    /\ task' = [task EXCEPT ![t].pc = "done", ![t].res = OK,
                            ![t].data = stock_count]
    /\ stockCountCache' = NoEntry(0)
    /\ UNCHANGED <<users, transactions, balanceCache, lockStatusCache,
                   dailyLimitCache, users0, stock, productCache, identity,
                   products, dailyUsage, batch, sweep, pending, historyCache,
                   productRows, productKeys, trxQueue>>

AddStockStep(t) ==
    \/ AS_Validate(t)
    \/ AS_Product(t)
    \/ AS_Lock(t)
    \/ AS_LockTimeout(t)
    \/ AS_Insert(t)
    \/ AS_Return(t)

(***************************************************************************)
(* delete_product (cache_manager.py 515-588)                               *)
(***************************************************************************)
StartDelete(t) ==
    /\ CatalogIdle(t)
    /\ task' = [task EXCEPT ![t] =
                  [IdleTask EXCEPT !.op = "delete_product", !.pc = "dp_lock",
                                   !.prior = Returned]]
    /\ UNCHANGED <<users, transactions, balanceCache, lockStatusCache,
                   dailyLimitCache, locks, users0, stock, productCache,
                   identity, products, dailyUsage,
                   stockCountCache, batch, sweep, pending, historyCache,
                   productRows, productKeys, trxQueue>>

\* lines 517-519
DP_Lock(t) ==
    LET r == task[t] IN
    /\ r.pc = "dp_lock"
    /\ ~locked(Key("product_delete", PRODUCT))
    /\ locks' = locks \cup {Key("product_delete", PRODUCT)}
    /\ task' = [task EXCEPT ![t].pc = "dp_product"]
    /\ UNCHANGED <<users, transactions, balanceCache, lockStatusCache,
                   dailyLimitCache, users0, stock, productCache, identity,
                   products, dailyUsage,
                   stockCountCache, batch, sweep, pending, historyCache,
                   productRows, productKeys, trxQueue>>

DP_LockTimeout(t) ==
    LET r == task[t] IN
    /\ r.pc = "dp_lock"
    /\ locked(Key("product_delete", PRODUCT))
    /\ task' = [task EXCEPT ![t].pc = "done", ![t].res = LOCK_ACQUISITION_FAILED]
    /\ UNCHANGED <<users, transactions, balanceCache, lockStatusCache,
                   dailyLimitCache, locks, users0, stock, productCache,
                   identity, products, dailyUsage,
                   stockCountCache, batch, sweep, pending, historyCache,
                   productRows, productKeys, trxQueue>>

\* get_product of cache_manager.py (301-339): the cache lookup is inside the
\* try block and conn is assigned after it, so on a hit the finally block
\* (line 338) raises UnboundLocalError; on a miss the SELECT skips a deleted
\* row.  found is the row returned (NoProduct: "Product not found").
cm_get_product(hit) ==
    IF hit THEN [raised |-> TRUE, found |-> NoProduct, cache |-> productCache]
    ELSE IF products.exists /\ products.status # STATUS_DELETED
         THEN [raised |-> FALSE, found |-> products, cache |-> Entry(products)]
    ELSE [raised |-> FALSE, found |-> NoProduct, cache |-> productCache]

\* lines 521-525 and 582-588.  conn is assigned at line 527 only: when
\* get_product raises (caught at line 582) or returns a failure (line 525),
\* the finally block reads the unassigned conn at line 586, the
\* UnboundLocalError leaves delete_product, and release_lock is not reached
DP_Product(t) ==
    LET r == task[t] IN
    /\ r.pc = "dp_product"
    /\ \E hit \in Hits(productCache) :
          LET p == cm_get_product(hit) IN
          /\ productCache' = p.cache
          /\ task' = [task EXCEPT ![t] =
                        IF ~p.found.exists
                        THEN [r EXCEPT !.pc = "done", !.res = UNBOUND_LOCAL]
                        ELSE [r EXCEPT !.pc = "dp_write"]]
    /\ UNCHANGED <<users, transactions, balanceCache, lockStatusCache,
                   dailyLimitCache, locks, users0, stock, identity,
                   products,
                   dailyUsage,
                   stockCountCache, batch, sweep, pending, historyCache,
                   productRows, productKeys, trxQueue>>

\* lines 546-555: UPDATE stock SET status = 'deleted' WHERE product_code = ?
\* AND status = 'available'
cascade ==
    [s \in DOMAIN stock |->
        IF stock[s].status = STATUS_AVAILABLE
        THEN [stock[s] EXCEPT !.status = STATUS_DELETED]
        ELSE stock[s]]

\* lines 527-557: one transaction; sel and data are history, the rows that
\* were available and the rows that were sold when it committed
DP_Write(t) ==
    LET r == task[t] IN
    /\ r.pc = "dp_write"
    /\ products' = [products EXCEPT !.status = STATUS_DELETED]
    /\ stock' = cascade
    /\ task' = [task EXCEPT ![t].pc = "dp_cache",
                            ![t].sel = {s \in DOMAIN stock :
                                          stock[s].status = STATUS_AVAILABLE},
                            ![t].data = {s \in DOMAIN stock :
                                          stock[s].status = STATUS_SOLD}]
    /\ UNCHANGED <<users, transactions, balanceCache, lockStatusCache,
                   dailyLimitCache, locks, users0, productCache, identity,
                   dailyUsage,
                   stockCountCache, batch, sweep, pending, historyCache,
                   productRows, productKeys, trxQueue>>

\* lines 560-563: the cache entries are deleted
DP_Cache(t) ==
    LET r == task[t] IN
    /\ r.pc = "dp_cache"
    /\ productCache' = NoEntry(0)
    /\ task' = [task EXCEPT ![t].pc = "dp_return"]
    /\ UNCHANGED <<users, transactions, balanceCache, lockStatusCache,
                   dailyLimitCache, locks, users0, stock, identity,
                   products,
                   dailyUsage,
                   stockCountCache, batch, sweep, pending, historyCache,
                   productRows, productKeys, trxQueue>>

\* lines 566-575 and 585-588: the callback, the response, the release
DP_Return(t) ==
    LET r == task[t] IN
    /\ r.pc = "dp_return"
    /\ locks' = locks \ {Key("product_delete", PRODUCT)}
    /\ task' = [task EXCEPT ![t].pc = "done", ![t].res = OK]
    /\ UNCHANGED <<users, transactions, balanceCache, lockStatusCache,
                   dailyLimitCache, users0, stock, productCache, identity,
                   products, dailyUsage,
                   stockCountCache, batch, sweep, pending, historyCache,
                   productRows, productKeys, trxQueue>>

DeleteStep(t) ==
    \/ DP_Lock(t)
    \/ DP_LockTimeout(t)
    \/ DP_Product(t)
    \/ DP_Write(t)
    \/ DP_Cache(t)
    \/ DP_Return(t)

(***************************************************************************)
(* Readers of the catalogue.  data is the product a call returned          *)
(* (NoProduct: none).  The entry all_products is taken as absent at each   *)
(* get_all_products call.                                                  *)
(***************************************************************************)
Readers == {"pm_get_product", "pm_get_all_products",
            "cm_get_product", "cm_get_all_products"}

StartRead(t) ==
    /\ CatalogIdle(t)
    /\ \E op \in Readers :
          task' = [task EXCEPT ![t] =
                      [IdleTask EXCEPT !.op = op, !.pc = "read",
                                       !.prior = Returned]]
    /\ UNCHANGED <<users, transactions, balanceCache, lockStatusCache,
                   dailyLimitCache, locks, users0, stock, productCache,
                   identity, products, dailyUsage,
                   stockCountCache, batch, sweep, pending, historyCache,
                   productRows, productKeys, trxQueue>>

\* product_manager.py 252-306
PM_GetProduct(t) ==
    LET r == task[t] IN
    /\ r.op = "pm_get_product" /\ r.pc = "read"
    /\ \E hit \in Hits(productCache) :
          LET p == pm_get_product(hit) IN
          /\ productCache' = p.cache
          /\ task' = [task EXCEPT ![t].pc = "done", ![t].data = p.found,
                                  ![t].res = IF ~p.found.exists
                                             THEN PRODUCT_NOT_FOUND ELSE OK]
    /\ UNCHANGED <<users, transactions, balanceCache, lockStatusCache,
                   dailyLimitCache, locks, users0, stock, identity,
                   products,
                   dailyUsage,
                   stockCountCache, batch, sweep, pending, historyCache,
                   productRows, productKeys, trxQueue>>

\* product_manager.py 308-348: SELECT * FROM products ORDER BY code
PM_GetAllProducts(t) ==
    LET r == task[t] IN
    /\ r.op = "pm_get_all_products" /\ r.pc = "read"
    /\ task' = [task EXCEPT ![t].pc = "done", ![t].res = OK,
                            ![t].data = products]
    /\ UNCHANGED <<users, transactions, balanceCache, lockStatusCache,
                   dailyLimitCache, locks, users0, stock, productCache,
                   identity, products, dailyUsage,
                   stockCountCache, batch, sweep, pending, historyCache,
                   productRows, productKeys, trxQueue>>

\* cache_manager.py 301-339
CM_GetProduct(t) ==
    LET r == task[t] IN
    /\ r.op = "cm_get_product" /\ r.pc = "read"
    /\ \E hit \in Hits(productCache) :
          LET p == cm_get_product(hit) IN
          /\ productCache' = p.cache
          /\ task' = [task EXCEPT ![t].pc = "done", ![t].data = p.found,
                                  ![t].res = IF p.raised THEN UNBOUND_LOCAL
                                             ELSE IF ~p.found.exists
                                             THEN PRODUCT_NOT_FOUND ELSE OK]
    /\ UNCHANGED <<users, transactions, balanceCache, lockStatusCache,
                   dailyLimitCache, locks, users0, stock, identity,
                   products,
                   dailyUsage,
                   stockCountCache, batch, sweep, pending, historyCache,
                   productRows, productKeys, trxQueue>>

\* cache_manager.py 341-375: SELECT * FROM products WHERE status != 'deleted'
CM_GetAllProducts(t) ==
    LET r == task[t] IN
    /\ r.op = "cm_get_all_products" /\ r.pc = "read"
    /\ task' = [task EXCEPT ![t].pc = "done", ![t].res = OK,
                            ![t].data = IF products.exists
                                           /\ products.status # STATUS_DELETED
                                        THEN products ELSE NoProduct]
    /\ UNCHANGED <<users, transactions, balanceCache, lockStatusCache,
                   dailyLimitCache, locks, users0, stock, productCache,
                   identity, products, dailyUsage,
                   stockCountCache, batch, sweep, pending, historyCache,
                   productRows, productKeys, trxQueue>>

CatalogRead(t) ==
    \/ PM_GetProduct(t)
    \/ PM_GetAllProducts(t)
    \/ CM_GetProduct(t)
    \/ CM_GetAllProducts(t)

\* the tables as earlier calls left them: at most MaxStock rows, no two
\* rows that are not deleted share a content
CatalogRows ==
    {StockItem(c, s) : c \in Contents,
                       s \in {STATUS_AVAILABLE, STATUS_SOLD, STATUS_DELETED}}
CatalogStocks ==
    {st \in UNION {[1..n -> CatalogRows] : n \in 0..MaxStock} :
        \A i, j \in DOMAIN st :
            (i # j /\ st[i].content = st[j].content)
                => (st[i].status = STATUS_DELETED \/ st[j].status = STATUS_DELETED)}

InitCatalog ==
    /\ users = [g \in Growids |-> NoUser]
    /\ users0 = users
    /\ stock \in CatalogStocks
    /\ products \in {NoProduct, ProductRow(STATUS_AVAILABLE),
                     ProductRow(STATUS_DELETED)}
    /\ transactions = <<>>
    /\ balanceCache = [g \in Growids |-> NoEntry(ZeroBalance)]
    /\ lockStatusCache = [g \in Growids |-> NoEntry(FALSE)]
    /\ dailyLimitCache = [g \in Growids |-> NoEntry(0)]
    /\ locks = {}
    /\ task = [t \in Tasks |-> IdleTask]
    /\ productCache = NoEntry(0)
    /\ dailyUsage = [g \in Growids |-> 0]
    /\ Background
    /\ identity = [u \in Buyers |-> NONE]

NextCatalog ==
    \E t \in Tasks :
        \/ StartAddStock(t)
        \/ AddStockStep(t)
        \/ StartDelete(t)
        \/ DeleteStep(t)
        \/ StartRead(t)
        \/ CatalogRead(t)

SpecCatalog == InitCatalog /\ [][NextCatalog]_vars

(***************************************************************************)
(* Account locks and balance reads: lock_balance (606-656),                *)
(* unlock_balance (658-703) and get_balance (315-373) of                   *)
(* balance_manager.py, next to update_balance and transfer_balance.  A     *)
(* call made here records in prior the calls that had returned before it.  *)
(***************************************************************************)
StartAccountLock(t) ==
    /\ task[t].op = "idle"
    /\ \E op \in {"lock_balance", "unlock_balance"}, g \in Growids :
          task' = [task EXCEPT ![t] =
                      [IdleTask EXCEPT !.op = op, !.pc = "al_lock", !.g = g,
                                       !.prior = Returned]]
    /\ UNCHANGED <<users, transactions, balanceCache, lockStatusCache,
                   dailyLimitCache, locks, users0, stock, productCache,
                   identity, products, dailyUsage,
                   stockCountCache, batch, sweep, pending, historyCache,
                   productRows, productKeys, trxQueue>>

\* lines 608-610 and 660-662: both take the key lock_<growid>
AL_Lock(t) ==
    LET r == task[t] IN
    /\ r.pc = "al_lock"
    /\ ~locked(Key("lock", r.g))
    /\ locks' = locks \cup {Key("lock", r.g)}
    /\ task' = [task EXCEPT ![t].pc = "al_write"]
    /\ UNCHANGED <<users, transactions, balanceCache, lockStatusCache,
                   dailyLimitCache, users0, stock, productCache, identity,
                   products, dailyUsage,
                   stockCountCache, batch, sweep, pending, historyCache,
                   productRows, productKeys, trxQueue>>

AL_LockTimeout(t) ==
    LET r == task[t] IN
    /\ r.pc = "al_lock"
    /\ locked(Key("lock", r.g))
    /\ task' = [task EXCEPT ![t].pc = "done", ![t].res = LOCK_ACQUISITION_FAILED]
    /\ UNCHANGED <<users, transactions, balanceCache, lockStatusCache,
                   dailyLimitCache, locks, users0, stock, productCache,
                   identity, products, dailyUsage,
                   stockCountCache, batch, sweep, pending, historyCache,
                   productRows, productKeys, trxQueue>>

\* lines 613-627 and 665-679: UPDATE users SET is_locked = ... WHERE growid = ?
\* and the commit; a growid without a row is not an error
AL_Write(t) ==
    LET r == task[t] IN
    /\ r.pc = "al_write"
    /\ users' = IF users[r.g].exists
                THEN [users EXCEPT ![r.g].is_locked = (r.op = "lock_balance")]
                ELSE users
    /\ task' = [task EXCEPT ![t].pc = "al_cache"]
    /\ UNCHANGED <<transactions, balanceCache, lockStatusCache, dailyLimitCache,
                   locks, users0, stock, productCache, identity,
                   products,
                   dailyUsage,
                   stockCountCache, batch, sweep, pending, historyCache,
                   productRows, productKeys, trxQueue>>

\* lines 630-634: lock_status_<growid> is set to True; line 682: it is deleted
AL_Cache(t) ==
    LET r == task[t] IN
    /\ r.pc = "al_cache"
    /\ lockStatusCache' =
          [lockStatusCache EXCEPT
              ![r.g] = IF r.op = "lock_balance" THEN Entry(TRUE) ELSE NoEntry(FALSE)]
    /\ task' = [task EXCEPT ![t].pc = "al_return"]
    /\ UNCHANGED <<users, transactions, balanceCache, dailyLimitCache, locks,
                   users0, stock, productCache, identity, products, dailyUsage,
                   stockCountCache, batch, sweep, pending, historyCache,
                   productRows, productKeys, trxQueue>>

\* lines 637-656 and 685-703: the callback, the response, the release
AL_Return(t) ==
    LET r == task[t] IN
    /\ r.pc = "al_return"
    /\ locks' = locks \ {Key("lock", r.g)}
    /\ task' = [task EXCEPT ![t].pc = "done", ![t].res = OK]
    /\ UNCHANGED <<users, transactions, balanceCache, lockStatusCache,
                   dailyLimitCache, users0, stock, productCache, identity,
                   products, dailyUsage,
                   stockCountCache, batch, sweep, pending, historyCache,
                   productRows, productKeys, trxQueue>>

AccountLockStep(t) ==
    \/ AL_Lock(t)
    \/ AL_LockTimeout(t)
    \/ AL_Write(t)
    \/ AL_Cache(t)
    \/ AL_Return(t)

\* the calls whose outcome the account lock decides
CallDeltas == {Delta(1, 0, 0), Delta(-1, 0, 0)}

StartCall(t) ==
    /\ task[t].op = "idle"
    /\ \/ \E g \in Growids, d \in CallDeltas, ty \in UpdateTypes :
             task' = [task EXCEPT ![t] =
                         [IdleTask EXCEPT !.op = "update", !.pc = "ub_locked",
                                          !.g = g, !.d = d, !.ty = ty,
                                          !.prior = Returned]]
       \/ \E s \in Growids : \E r \in Growids \ {s} :
             task' = [task EXCEPT ![t] =
                         [IdleTask EXCEPT !.op = "transfer", !.pc = "tr_validate",
                                          !.snd = s, !.rcv = r, !.amt = 1,
                                          !.before = RowBalance(s),
                                          !.prior = Returned]]
       \/ \E g \in Growids :
             task' = [task EXCEPT ![t] =
                         [IdleTask EXCEPT !.op = "get_balance", !.pc = "gb_locked",
                                          !.g = g, !.prior = Returned]]
    /\ UNCHANGED <<users, transactions, balanceCache, lockStatusCache,
                   dailyLimitCache, locks, users0, stock, productCache,
                   identity, products, dailyUsage,
                   stockCountCache, batch, sweep, pending, historyCache,
                   productRows, productKeys, trxQueue>>

\* get_balance lines 317-319: is_balance_locked, outside any try block
GB_Locked(t) ==
    LET r == task[t] IN
    /\ r.op = "get_balance" /\ r.pc = "gb_locked"
    /\ \E hit \in Hits(lockStatusCache[r.g]) :
          IF hit THEN
               /\ task' = [task EXCEPT ![t].pc = "done", ![t].res = UNBOUND_LOCAL]
               /\ UNCHANGED lockStatusCache
          ELSE /\ lockStatusCache' = lock_status_filled(r.g)
               /\ task' = [task EXCEPT ![t] =
                             IF is_balance_locked(r.g)
                             THEN [r EXCEPT !.pc = "done", !.res = BALANCE_LOCKED]
                             ELSE [r EXCEPT !.pc = "gb_cache"]]
    /\ UNCHANGED <<users, transactions, balanceCache, dailyLimitCache, locks,
                   users0, stock, productCache, identity, products, dailyUsage,
                   stockCountCache, batch, sweep, pending, historyCache,
                   productRows, productKeys, trxQueue>>

\* lines 321-328: the cached balance is returned as it is; an entry whose
\* time has passed is dropped by the read that finds it expired
GB_Cache(t) ==
    LET r == task[t] IN
    /\ r.pc = "gb_cache"
    /\ \E hit \in Hits(balanceCache[r.g]) :
          IF hit
          THEN /\ task' = [task EXCEPT ![t].pc = "done", ![t].res = OK,
                                       ![t].cur = balanceCache[r.g].val]
               /\ balanceCache' = balanceCache
          ELSE /\ task' = [task EXCEPT ![t].pc = "gb_lock"]
               /\ balanceCache' = [balanceCache EXCEPT
                                     ![r.g] = NoEntry(ZeroBalance)]
    /\ UNCHANGED <<users, transactions, lockStatusCache,
                   dailyLimitCache, locks, users0, stock, productCache,
                   identity, products, dailyUsage,
                   stockCountCache, batch, sweep, pending, historyCache,
                   productRows, productKeys, trxQueue>>

\* lines 330-332: acquire_lock("balance_<growid>")
GB_Lock(t) ==
    LET r == task[t] IN
    /\ r.pc = "gb_lock"
    /\ ~locked(Key("balance", r.g))
    /\ locks' = locks \cup {Key("balance", r.g)}
    /\ task' = [task EXCEPT ![t].pc = "gb_select"]
    /\ UNCHANGED <<users, transactions, balanceCache, lockStatusCache,
                   dailyLimitCache, users0, stock, productCache, identity,
                   products, dailyUsage,
                   stockCountCache, batch, sweep, pending, historyCache,
                   productRows, productKeys, trxQueue>>

GB_LockTimeout(t) ==
    LET r == task[t] IN
    /\ r.pc = "gb_lock"
    /\ locked(Key("balance", r.g))
    /\ task' = [task EXCEPT ![t].pc = "done", ![t].res = LOCK_ACQUISITION_FAILED]
    /\ UNCHANGED <<users, transactions, balanceCache, lockStatusCache,
                   dailyLimitCache, locks, users0, stock, productCache,
                   identity, products, dailyUsage,
                   stockCountCache, batch, sweep, pending, historyCache,
                   productRows, productKeys, trxQueue>>

\* lines 334-353 and 364 with 370-373: the SELECT; without a row the call
\* returns BALANCE_NOT_FOUND through the finally block
GB_Select(t) ==
    LET r == task[t] IN
    /\ r.pc = "gb_select"
    /\ IF users[r.g].exists THEN
            /\ task' = [task EXCEPT ![t].pc = "gb_set", ![t].cur = RowBalance(r.g)]
            /\ locks' = locks
       ELSE /\ task' = [task EXCEPT ![t].pc = "done", ![t].res = BALANCE_NOT_FOUND]
            /\ locks' = locks \ {Key("balance", r.g)}
    /\ UNCHANGED <<users, transactions, balanceCache, lockStatusCache,
                   dailyLimitCache, users0, stock, productCache, identity,
                   products, dailyUsage,
                   stockCountCache, batch, sweep, pending, historyCache,
                   productRows, productKeys, trxQueue>>

\* lines 354-358: the cache call stores the balance that was read
GB_Set(t) ==
    LET r == task[t] IN
    /\ r.pc = "gb_set"
    /\ balanceCache' = [balanceCache EXCEPT ![r.g] = Entry(r.cur)]
    /\ task' = [task EXCEPT ![t].pc = "gb_return"]
    /\ UNCHANGED <<users, transactions, lockStatusCache, dailyLimitCache, locks,
                   users0, stock, productCache, identity, products, dailyUsage,
                   stockCountCache, batch, sweep, pending, historyCache,
                   productRows, productKeys, trxQueue>>

\* lines 361-363 and 370-373: the callback, the response, the release
GB_Return(t) ==
    LET r == task[t] IN
    /\ r.pc = "gb_return"
    /\ locks' = locks \ {Key("balance", r.g)}
    /\ task' = [task EXCEPT ![t].pc = "done", ![t].res = OK]
    /\ UNCHANGED <<users, transactions, balanceCache, lockStatusCache,
                   dailyLimitCache, users0, stock, productCache, identity,
                   products, dailyUsage,
                   stockCountCache, batch, sweep, pending, historyCache,
                   productRows, productKeys, trxQueue>>

GetBalanceStep(t) ==
    \/ GB_Locked(t)
    \/ GB_Cache(t)
    \/ GB_Lock(t)
    \/ GB_LockTimeout(t)
    \/ GB_Select(t)
    \/ GB_Set(t)
    \/ GB_Return(t)

AccountRows == {UserRow(1, 1, 0, DEFAULT_DAILY_LIMIT), NoUser}

InitAccount ==
    /\ users \in [Growids -> AccountRows]
    /\ users0 = users
    /\ stock = [s \in StockIds |-> DeletedStock]
    /\ InitCommon

\* as InitAccount, with the balance of an account cached by an earlier
\* get_balance or not
InitCached ==
    /\ users \in [Growids -> AccountRows]
    /\ users0 = users
    /\ stock = [s \in StockIds |-> DeletedStock]
    /\ transactions = <<>>
    /\ balanceCache \in [Growids -> {NoEntry(ZeroBalance)}
                                      \cup {Entry(Balance(1, 1, 0))}]
    /\ \A g \in Growids :
          balanceCache[g].has =>
              users[g].exists /\ balanceCache[g].val = RowBalance(g)
    /\ lockStatusCache = [g \in Growids |-> NoEntry(FALSE)]
    /\ dailyLimitCache = [g \in Growids |-> NoEntry(0)]
    /\ locks = {}
    /\ task = [t \in Tasks |-> IdleTask]
    /\ productCache = NoEntry(0)
    /\ products = ProductRow(STATUS_AVAILABLE)
    /\ dailyUsage = [g \in Growids |-> 0]
    /\ Background
    /\ identity = [u \in Buyers |-> IF users[user_growid(u)].exists
                                     THEN user_growid(u) ELSE NONE]

NextAccount ==
    \E t \in Tasks :
        \/ StartAccountLock(t)
        \/ AccountLockStep(t)
        \/ StartCall(t)
        \/ UpdateStep(t)
        \/ TransferStep(t)
        \/ GetBalanceStep(t)

SpecAccount == InitAccount /\ [][NextAccount]_vars

\* get_balance, update_balance and transfer_balance on cached balances
NextCached ==
    \E t \in Tasks :
        \/ StartCall(t)
        \/ UpdateStep(t)
        \/ TransferStep(t)
        \/ GetBalanceStep(t)

SpecCached == InitCached /\ [][NextCached]_vars

(***************************************************************************)
(* update_balance with a storage that can fail inside the transaction of   *)
(* lines 447-483: a statement of the transaction raises, the commit of     *)
(* line 483 raises, or the statement of _update_daily_usage raises.        *)
(***************************************************************************)
StorageFaults == {"statement", "commit", "daily_usage"}
\* line 516: raise TransactionError(str(e)), returned as error(str(e)) at
\* lines 518-519
TRANSACTION_ERROR == "TransactionError"

UB_WriteFault(t) ==
    LET r == task[t]
        key == Key("balance_update", r.g)
        failed == [r EXCEPT !.ures = TRANSACTION_ERROR]
    IN
    /\ r.pc = "ub_write"
    /\ \E fault \in StorageFaults :
          IF fault = "statement" THEN
               \* lines 448-474 raise: rollback (line 515)
               /\ Return(t, failed, {key})
               /\ UNCHANGED <<users, transactions, dailyUsage>>
          ELSE IF fault = "commit" THEN
               \* line 483 raises after _update_daily_usage has committed on
               \* its own connection: the rollback of line 515 does not
               \* reach the daily_usage row
               /\ Return(t, failed, {key})
               /\ dailyUsage' = daily_usage_added(r)
               /\ UNCHANGED <<users, transactions>>
          ELSE \* _update_daily_usage logs its own exception (lines 877-878)
               \* and returns; the transaction commits
               /\ r.ty # TYPE_ADMIN_ADD
               /\ users' = balance_written(r)
               /\ transactions' = transaction_inserted(t, r)
               /\ task' = [task EXCEPT ![t].pc = "ub_cache"]
               /\ UNCHANGED <<dailyUsage, locks>>
    /\ UNCHANGED <<balanceCache, lockStatusCache, dailyLimitCache, users0,
                   stock, productCache, identity, products,
                   stockCountCache, batch, sweep, pending, historyCache,
                   productRows, productKeys, trxQueue>>

NextStorage ==
    \E t \in Tasks :
        \/ StartUpdate(t)
        \/ UpdateStep(t)
        \/ UB_WriteFault(t)

SpecStorage == InitAccount /\ [][NextStorage]_vars

(***************************************************************************)
(* process_deposit (trx.py 523-616) and process_batch_transaction          *)
(* (trx.py 618-657)                                                        *)
(***************************************************************************)
INVALID_DEPOSIT == "Invalid deposit amount"
UNSUPPORTED_CURRENCY == "Unsupported currency"
NEGATIVE_AMOUNT == "Negative amounts not allowed"
KEY_ERROR == "KeyError"
UNSUPPORTED_TYPE == "Unsupported transaction type"

\* CURRENCY_RATES.SUPPORTED, constants.py 245
SUPPORTED == {"WL", "DL", "BGL"}

\* process_deposit lines 539-540: the dictionary handed to validate_deposit,
\* as the sequence of its items
deposit_amount(d) == <<<<"wl", d.wl>>, <<"dl", d.dl>>, <<"bgl", d.bgl>>>>

\* the currency names of the caller, in the letters of CURRENCY_RATES
upper_case_amount(d) == <<<<"WL", d.wl>>, <<"DL", d.dl>>, <<"BGL", d.bgl>>>>

RECURSIVE sum_values(_)
sum_values(items) ==
    IF items = <<>> THEN 0 ELSE items[1][2] + sum_values(Tail(items))

\* validate_deposit lines 191-195: the items in order; the first offending
\* item raises
RECURSIVE check_items(_)
check_items(items) ==
    IF items = <<>> THEN OK
    ELSE IF items[1][1] \notin SUPPORTED THEN UNSUPPORTED_CURRENCY
    ELSE IF items[1][2] < 0 THEN NEGATIVE_AMOUNT
    ELSE check_items(Tail(items))

\* validate_deposit, trx.py 179-195 (every user id of the model is a digit
\* string)
validate_deposit(items) ==
    IF sum_values(items) <= 0 THEN INVALID_DEPOSIT ELSE check_items(items)

DepositAmounts == {Delta(1, 0, 0), Delta(0, 1, 0), Delta(1, 0, 1),
                   Delta(0, 0, 0), Delta(2, -1, 0), Delta(-1, 0, 0)}

StartDeposit(t) ==
    /\ task[t].op = "idle"
    /\ \E u \in Buyers, d \in DepositAmounts :
          task' = [task EXCEPT ![t] = [IdleTask EXCEPT !.op = "deposit",
                                          !.pc = "pd_validate", !.user = u,
                                          !.d = d]]
    /\ UNCHANGED <<users, transactions, balanceCache, lockStatusCache,
                   dailyLimitCache, locks, users0, stock, productCache,
                   identity, products, dailyUsage,
                   stockCountCache, batch, sweep, pending, historyCache,
                   productRows, productKeys, trxQueue>>

\* lines 534-541 and 612-613: the validation raises ValidationError, which
\* the handler turns into an error response.  Lines 543-609 (the lock
\* deposit_<id>, get_growid, update_balance, the notification) come after
\* the validation has passed: position "pd_lock"
PD_Validate(t) ==
    LET r == task[t]
        v == validate_deposit(deposit_amount(r.d))
    IN  /\ r.pc = "pd_validate"
        /\ task' = [task EXCEPT ![t] =
                      IF v = OK THEN [r EXCEPT !.pc = "pd_lock"]
                      ELSE [r EXCEPT !.pc = "done", !.res = v]]
        /\ UNCHANGED <<users, transactions, balanceCache, lockStatusCache,
                       dailyLimitCache, locks, users0, stock, productCache,
                       identity, products, dailyUsage,
                       stockCountCache, batch, sweep, pending, historyCache,
                   productRows, productKeys, trxQueue>>

\* the entries of a batch: dictionaries, some without the keys the loop reads
PurchaseEntry(u, q) ==
    [type |-> TYPE_PURCHASE, user_id |-> u, product_code |-> PRODUCT,
     quantity |-> q]
DepositEntry(u, d) == [type |-> TYPE_DEPOSIT, user_id |-> u, amount |-> d]
BatchEntries ==
    {PurchaseEntry("1", 1), PurchaseEntry("2", 0),
     [type |-> TYPE_PURCHASE, user_id |-> "1", product_code |-> PRODUCT],
     DepositEntry("1", Delta(1, 0, 0)), DepositEntry("1", Delta(0, 0, 0)),
     [type |-> "withdrawal", user_id |-> "1"],
     [user_id |-> "1"]}

MaxBatch == 2
BatchInputs == UNION {[1..n -> BatchEntries] : n \in 0..MaxBatch}

\* the keys the loop body reads of an entry (lines 629-639)
keys_read(e) ==
    IF "type" \notin DOMAIN e THEN {"type"}
    ELSE IF e.type = TYPE_PURCHASE THEN {"type", "user_id", "product_code",
                                         "quantity"}
    ELSE IF e.type = TYPE_DEPOSIT THEN {"type", "user_id", "amount"}
    ELSE {"type"}

\* a loop that drops the entry that raised
abort_on_exception(results, i, e) == results
\* lines 644-646: the exception of an entry becomes its result
on_exception(results, i, e) == Append(results, [of |-> i, res |-> e])

StartBatch(t) ==
    /\ task[t].op = "idle"
    /\ batch.pc = "none"
    /\ \E input \in BatchInputs :
          batch' = [NoBatch EXCEPT !.pc = "loop", !.by = t, !.input = input,
                                   !.i = 1]
    /\ task' = [task EXCEPT ![t] = [IdleTask EXCEPT !.op = "batch",
                                                    !.pc = "pb_loop"]]
    /\ UNCHANGED <<users, transactions, balanceCache, lockStatusCache,
                   dailyLimitCache, locks, users0, stock, productCache,
                   identity, products, dailyUsage, stockCountCache, sweep,
                   pending, historyCache,
                   productRows, productKeys, trxQueue>>

\* lines 627-643: the next entry.  A missing key raises KeyError inside the
\* try block; an unsupported type is an error response; a purchase or a
\* deposit is awaited
PB_Entry(t) ==
    LET b == batch
        e == b.input[b.i]
        seen == [b EXCEPT !.order = Append(@, b.i)]
    IN  /\ b.pc = "loop" /\ b.by = t
        /\ b.i <= Len(b.input)
        /\ IF ~(keys_read(e) \subseteq DOMAIN e) THEN
                /\ batch' = [seen EXCEPT !.i = @ + 1,
                               !.results = on_exception(@, b.i, KEY_ERROR)]
                /\ task' = task
           ELSE IF e.type = TYPE_PURCHASE THEN
                /\ batch' = [seen EXCEPT !.pc = "call"]
                /\ task' = [task EXCEPT ![t] =
                              [IdleTask EXCEPT !.op = "purchase",
                                  !.pc = "pp_lock", !.user = e.user_id,
                                  !.qty = e.quantity]]
           ELSE IF e.type = TYPE_DEPOSIT THEN
                /\ batch' = [seen EXCEPT !.pc = "call"]
                /\ task' = [task EXCEPT ![t] =
                              [IdleTask EXCEPT !.op = "deposit",
                                  !.pc = "pd_validate", !.user = e.user_id,
                                  !.d = e.amount]]
           ELSE /\ batch' = [seen EXCEPT !.i = @ + 1,
                               !.results = Append(@, [of |-> b.i,
                                                      res |-> UNSUPPORTED_TYPE])]
                /\ task' = task
        /\ UNCHANGED <<users, transactions, balanceCache, lockStatusCache,
                       dailyLimitCache, locks, users0, stock, productCache,
                       identity, products, dailyUsage, stockCountCache,
                       sweep, pending, historyCache,
                   productRows, productKeys, trxQueue>>

\* line 643 (and 644-646 when the awaited call raised): the result of the
\* entry is appended
PB_Collect(t) ==
    LET b == batch
        r == task[t]
    IN  /\ b.pc = "call" /\ b.by = t
        /\ r.pc = "done"
        /\ batch' = [b EXCEPT !.pc = "loop", !.i = @ + 1,
                       !.results = IF r.res = UNBOUND_LOCAL
                                   THEN on_exception(@, b.i, r.res)
                                   ELSE Append(@, [of |-> b.i, res |-> r.res])]
        /\ task' = [task EXCEPT ![t] = [IdleTask EXCEPT !.op = "batch",
                                                        !.pc = "pb_loop"]]
        /\ UNCHANGED <<users, transactions, balanceCache, lockStatusCache,
                       dailyLimitCache, locks, users0, stock, productCache,
                       identity, products, dailyUsage, stockCountCache,
                       sweep, pending, historyCache,
                   productRows, productKeys, trxQueue>>

\* lines 648-657: the callbacks of batch_completed (trigger, lines 292-299,
\* logs what a callback raises) and the return of the results
PB_Return(t) ==
    LET b == batch IN
    /\ b.pc = "loop" /\ b.by = t
    /\ b.i > Len(b.input)
    /\ batch' = [b EXCEPT !.pc = "returned"]
    /\ task' = [task EXCEPT ![t].pc = "done", ![t].res = OK]
    /\ UNCHANGED <<users, transactions, balanceCache, lockStatusCache,
                   dailyLimitCache, locks, users0, stock, productCache,
                   identity, products, dailyUsage, stockCountCache, sweep,
                   pending, historyCache,
                   productRows, productKeys, trxQueue>>

BatchStep(t) ==
    \/ PB_Entry(t)
    \/ PB_Collect(t)
    \/ PB_Return(t)

InitBatch ==
    /\ users = [g \in Growids |-> UserRow(1, 1, 0, DEFAULT_DAILY_LIMIT)]
    /\ users0 = users
    /\ stock = InitStock(MaxStock)
    /\ InitCommon

NextBatch ==
    \E t \in Tasks :
        \/ StartBatch(t)
        \/ BatchStep(t)
        \/ StartDeposit(t)
        \/ PD_Validate(t)
        \/ StartPurchase(t)
        \/ PurchaseStep(t)
        \/ StartAdminUpdate(t)
        \/ UpdateStep(t)

SpecBatch == InitBatch /\ [][NextBatch]_vars

(***************************************************************************)
(* Balance.format and Balance.from_string (constants.py 113-151).  A       *)
(* string is modelled as the sequence of the pieces that split(',') makes  *)
(* of it: the digits of a piece (as the number int() reads from them) and  *)
(* the currency name the piece contains (NONE: none)                       *)
(***************************************************************************)
Piece(digits, unit) == [digits |-> digits, unit |-> unit]

\* the format specification ',': the decimal digits in groups of three,
\* separated by commas
RECURSIVE groups(_)
groups(n) == IF n < 1000 THEN <<n>> ELSE Append(groups(n \div 1000), n % 1000)

\* f"{n:,} UNIT": the currency name follows the last group
part(n, unit) ==
    LET g == groups(n)
    IN  [k \in 1..Len(g) |-> Piece(g[k], IF k = Len(g) THEN unit ELSE NONE)]

\* Balance.format, lines 113-122
format(b) ==
    LET bgl == IF b.bgl > 0 THEN part(b.bgl, "BGL") ELSE <<>>
        dl == IF b.dl > 0 THEN part(b.dl, "DL") ELSE <<>>
        wl == IF b.wl > 0 \/ bgl \o dl = <<>> THEN part(b.wl, "WL") ELSE <<>>
    IN  bgl \o dl \o wl

\* Balance.from_string, lines 133-151: the pieces in order; a piece that
\* contains no currency name matches no branch
RECURSIVE parsed(_, _)
parsed(pieces, b) ==
    IF pieces = <<>> THEN b
    ELSE LET p == pieces[1]
             n == IF p.unit = "WL" THEN [b EXCEPT !.wl = p.digits]
                  ELSE IF p.unit = "DL" THEN [b EXCEPT !.dl = p.digits]
                  ELSE IF p.unit = "BGL" THEN [b EXCEPT !.bgl = p.digits]
                  ELSE b
         IN  parsed(Tail(pieces), n)

from_string(s) ==
    LET b == parsed(s, ZeroBalance)
    IN  Balance(Max(0, b.wl), Max(0, b.dl), Max(0, b.bgl))

FormatAmounts == {0, 1, 999, 1000, 1234}

\* balance.format()
BF_Format(t) ==
    LET r == task[t] IN
    /\ r.pc = "bf_format"
    /\ task' = [task EXCEPT ![t].data = format(r.cur), ![t].pc = "bf_parse"]
    /\ UNCHANGED <<users, transactions, balanceCache, lockStatusCache,
                   dailyLimitCache, locks, users0, stock, productCache,
                   identity, products, dailyUsage,
                   stockCountCache, batch, sweep, pending, historyCache,
                   productRows, productKeys, trxQueue>>

\* Balance.from_string(...)
BF_Parse(t) ==
    LET r == task[t] IN
    /\ r.pc = "bf_parse"
    /\ task' = [task EXCEPT ![t].new = from_string(r.data), ![t].pc = "done"]
    /\ UNCHANGED <<users, transactions, balanceCache, lockStatusCache,
                   dailyLimitCache, locks, users0, stock, productCache,
                   identity, products, dailyUsage,
                   stockCountCache, batch, sweep, pending, historyCache,
                   productRows, productKeys, trxQueue>>

InitFormat ==
    /\ users = [g \in Growids |-> NoUser]
    /\ users0 = users
    /\ stock = InitStock(0)
    /\ transactions = <<>>
    /\ balanceCache = [g \in Growids |-> NoEntry(ZeroBalance)]
    /\ lockStatusCache = [g \in Growids |-> NoEntry(FALSE)]
    /\ dailyLimitCache = [g \in Growids |-> NoEntry(0)]
    /\ locks = {}
    /\ productCache = NoEntry(0)
    /\ products = ProductRow(STATUS_AVAILABLE)
    /\ dailyUsage = [g \in Growids |-> 0]
    /\ Background
    /\ identity = [u \in Buyers |-> NONE]
    /\ \E f \in [Tasks -> [wl : FormatAmounts, dl : FormatAmounts,
                           bgl : FormatAmounts]] :
          task = [t \in Tasks |-> [IdleTask EXCEPT !.op = "format",
                                      !.pc = "bf_format", !.cur = f[t]]]

NextFormat == \E t \in Tasks : BF_Format(t) \/ BF_Parse(t)

SpecFormat == InitFormat /\ [][NextFormat]_vars

(***************************************************************************)
(* monitor_pending_transactions (trx.py 807-836) and                       *)
(* recover_failed_transaction (trx.py 838-867).  No statement under src/   *)
(* writes the column status of transactions: the rows the sweep's query    *)
(* can see are given at startup                                            *)
(***************************************************************************)
TRX_NOT_FOUND == "Transaction not found"
NOT_FAILED_STATE == "Transaction is not in failed state"
RECOVERY_UNSUPPORTED == "Recovery not supported for type"
RECOVERY_FAILED == "recovery failed"
STATUS_PENDING == "pending"
STATUS_FAILED == "failed"

\* a row of transactions, created more than five minutes ago
TrxRow(id, type, status) == [id |-> id, type |-> type, status |-> status]
TrxRows == {TrxRow(1, TYPE_PURCHASE, STATUS_PENDING),
            TrxRow(2, TYPE_DEPOSIT, STATUS_PENDING),
            TrxRow(3, TYPE_PURCHASE, STATUS_FAILED),
            TrxRow(4, "withdrawal", STATUS_FAILED)}
TrxIds == {row.id : row \in TrxRows}
\* the ids a caller may pass: those of the rows and one of no row
CalledIds == TrxIds \cup {0}

\* the query of lines 815-819
select_pending == {row.id : row \in {x \in pending : x.status = STATUS_PENDING}}

\* _get_transaction is called at line 850 and defined nowhere in the
\* repository: the row of the id, if there is one
get_transaction(id) == {row \in pending : row.id = id}

\* lines 848-863: what the call decides before any recovery ("attempt": it
\* goes on to recover_purchase or recover_deposit)
recover_failed_transaction(id) ==
    LET found == get_transaction(id) IN
    IF found = {} THEN TRX_NOT_FOUND
    ELSE LET transaction == CHOOSE row \in found : TRUE IN
         IF transaction.status # STATUS_FAILED THEN NOT_FAILED_STATE
         ELSE IF transaction.type \in {TYPE_PURCHASE, TYPE_DEPOSIT}
         THEN "attempt"
         ELSE RECOVERY_UNSUPPORTED

\* recover_purchase and recover_deposit are called at lines 859 and 861 and
\* defined nowhere in the repository: the recovery of the specification
\* finalises or reverts the transaction, or fails and leaves the row
Recoveries == {OK, RECOVERY_FAILED}
recovered(id, outcome) ==
    IF outcome = OK THEN {row \in pending : row.id # id} ELSE pending

\* cog_load, line 881: the sweep is started as a task of the event loop
MP_Start ==
    /\ sweep.pc = "off"
    /\ sweep' = [sweep EXCEPT !.pc = "connect"]
    /\ UNCHANGED <<users, transactions, balanceCache, lockStatusCache,
                   dailyLimitCache, locks, task, users0, stock, productCache,
                   identity, products, dailyUsage, stockCountCache, batch,
                   pending, historyCache,
                   productRows, productKeys, trxQueue>>

\* line 812: conn = get_connection(); when it raises, conn keeps what it
\* had (nothing in the first iteration) and the except clause of lines
\* 831-833 runs
MP_Connect ==
    /\ sweep.pc = "connect"
    /\ \E opened \in Opened :
          sweep' = IF opened
                   THEN [sweep EXCEPT !.pc = "select", !.conn = "connection",
                                      !.handed = {}, !.attempted = {}]
                   ELSE [sweep EXCEPT !.pc = "failed",
                                      !.handed = {}, !.attempted = {}]
    /\ UNCHANGED <<users, transactions, balanceCache, lockStatusCache,
                   dailyLimitCache, locks, task, users0, stock, productCache,
                   identity, products, dailyUsage, stockCountCache, batch,
                   pending, historyCache,
                   productRows, productKeys, trxQueue>>

\* lines 813-821: the query returns the rows or raises
MP_Select ==
    /\ sweep.pc = "select"
    /\ \E answered \in BOOLEAN :
          sweep' = IF answered
                   THEN [sweep EXCEPT !.pc = "recover", !.rows = select_pending]
                   ELSE [sweep EXCEPT !.pc = "failed"]
    /\ UNCHANGED <<users, transactions, balanceCache, lockStatusCache,
                   dailyLimitCache, locks, task, users0, stock, productCache,
                   identity, products, dailyUsage, stockCountCache, batch,
                   pending, historyCache,
                   productRows, productKeys, trxQueue>>

\* lines 823-827: the next row is handed to recover_failed_transaction,
\* which returns an error response for whatever it raises (lines 865-867)
MP_Recover ==
    /\ sweep.pc = "recover"
    /\ sweep.rows # {}
    /\ LET id == CHOOSE i \in sweep.rows : \A j \in sweep.rows : i <= j
           rest == [sweep EXCEPT !.rows = @ \ {id}, !.handed = @ \cup {id}]
       IN  IF recover_failed_transaction(id) = "attempt"
           THEN /\ sweep' = [rest EXCEPT !.attempted = @ \cup {id}]
                /\ \E outcome \in Recoveries : pending' = recovered(id, outcome)
           ELSE /\ sweep' = rest
                /\ pending' = pending
    /\ UNCHANGED <<users, transactions, balanceCache, lockStatusCache,
                   dailyLimitCache, locks, task, users0, stock, productCache,
                   identity, products, dailyUsage, stockCountCache, batch,
                   historyCache,
                   productRows, productKeys, trxQueue>>

MaxSweeps == 2

\* lines 829 and 833: asyncio.sleep(300), after the rows or after the
\* except clause has logged the exception
MP_Sleep ==
    /\ \/ sweep.pc = "recover" /\ sweep.rows = {}
       \/ sweep.pc = "failed"
    /\ sweep' = [sweep EXCEPT !.pc = "finally",
                              !.sweeps = IF @ < MaxSweeps THEN @ + 1 ELSE @]
    /\ UNCHANGED <<users, transactions, balanceCache, lockStatusCache,
                   dailyLimitCache, locks, task, users0, stock, productCache,
                   identity, products, dailyUsage, stockCountCache, batch,
                   pending, historyCache,
                   productRows, productKeys, trxQueue>>

\* lines 834-836: the finally block reads conn.  When conn was never
\* assigned, the read raises UnboundLocalError outside every try block of
\* the loop and the coroutine ends; otherwise the connection (of this or of
\* an earlier iteration) is closed and the loop goes round
MP_Finally ==
    /\ sweep.pc = "finally"
    /\ sweep' = [sweep EXCEPT !.pc = IF sweep.conn = NONE THEN "crashed"
                                     ELSE "connect"]
    /\ UNCHANGED <<users, transactions, balanceCache, lockStatusCache,
                   dailyLimitCache, locks, task, users0, stock, productCache,
                   identity, products, dailyUsage, stockCountCache, batch,
                   pending, historyCache,
                   productRows, productKeys, trxQueue>>

\* a direct call of recover_failed_transaction
StartRecover(t) ==
    /\ task[t].op = "idle"
    /\ \E id \in CalledIds :
          task' = [task EXCEPT ![t] = [IdleTask EXCEPT !.op = "recover",
                                          !.pc = "rf_recover", !.key = id]]
    /\ UNCHANGED <<users, transactions, balanceCache, lockStatusCache,
                   dailyLimitCache, locks, users0, stock, productCache,
                   identity, products, dailyUsage,
                   stockCountCache, batch, sweep, pending, historyCache,
                   productRows, productKeys, trxQueue>>

RF_Recover(t) ==
    LET r == task[t]
        res == recover_failed_transaction(r.key)
    IN  /\ r.pc = "rf_recover"
        /\ IF res = "attempt"
           THEN \E outcome \in Recoveries :
                   /\ pending' = recovered(r.key, outcome)
                   /\ task' = [task EXCEPT ![t].pc = "done", ![t].res = outcome]
           ELSE /\ pending' = pending
                /\ task' = [task EXCEPT ![t].pc = "done", ![t].res = res]
        /\ UNCHANGED <<users, transactions, balanceCache, lockStatusCache,
                       dailyLimitCache, locks, users0, stock, productCache,
                       identity, products, dailyUsage,
                       stockCountCache, batch, sweep, historyCache,
                   productRows, productKeys, trxQueue>>

InitSweep ==
    /\ users = [g \in Growids |-> NoUser]
    /\ users0 = users
    /\ stock = InitStock(0)
    /\ transactions = <<>>
    /\ balanceCache = [g \in Growids |-> NoEntry(ZeroBalance)]
    /\ lockStatusCache = [g \in Growids |-> NoEntry(FALSE)]
    /\ dailyLimitCache = [g \in Growids |-> NoEntry(0)]
    /\ locks = {}
    /\ task = [t \in Tasks |-> IdleTask]
    /\ productCache = NoEntry(0)
    /\ products = ProductRow(STATUS_AVAILABLE)
    /\ dailyUsage = [g \in Growids |-> 0]
    /\ identity = [u \in Buyers |-> NONE]
    /\ stockCountCache = NoEntry(0)
    /\ batch = NoBatch
    /\ sweep = NoSweep
    /\ pending \in SUBSET TrxRows
    /\ historyCache = [g \in Growids |-> NoEntry(<<>>)]
    /\ productRows = {}
    /\ productKeys = {}
    /\ trxQueue = NoQueue

NextSweep ==
    \/ MP_Start
    \/ MP_Connect
    \/ MP_Select
    \/ MP_Recover
    \/ MP_Sleep
    \/ MP_Finally
    \/ \E t \in Tasks : StartRecover(t) \/ RF_Recover(t)

SpecSweep == InitSweep /\ [][NextSweep]_vars

(***************************************************************************)
(* get_stock_count (cache_manager.py 377-414), next to add_stock and       *)
(* delete_product                                                          *)
(***************************************************************************)
StartCount(t) ==
    /\ CatalogIdle(t)
    /\ task' = [task EXCEPT ![t] =
                  [IdleTask EXCEPT !.op = "get_stock_count", !.pc = "sc_cache",
                                   !.prior = Returned]]
    /\ UNCHANGED <<users, transactions, balanceCache, lockStatusCache,
                   dailyLimitCache, locks, users0, stock, productCache,
                   identity, products, dailyUsage,
                   stockCountCache, batch, sweep, pending, historyCache,
                   productRows, productKeys, trxQueue>>

\* lines 379-398 and 412-414: on a hit the cached count is returned from
\* inside the try block and the finally block reads conn, which is assigned
\* at line 385 only: the UnboundLocalError replaces the response.  On a
\* miss (an expired entry is dropped by the read) the rows are counted
SC_Cache(t) ==
    LET r == task[t] IN
    /\ r.pc = "sc_cache"
    /\ \E hit \in Hits(stockCountCache) :
          IF hit
          THEN /\ task' = [task EXCEPT ![t].pc = "done",
                                       ![t].res = UNBOUND_LOCAL]
               /\ stockCountCache' = stockCountCache
          ELSE /\ task' = [task EXCEPT ![t].pc = "sc_set",
                                       ![t].data = stock_count]
               /\ stockCountCache' = NoEntry(0)
    /\ UNCHANGED <<users, transactions, balanceCache, lockStatusCache,
                   dailyLimitCache, locks, users0, stock, productCache,
                   identity, products, dailyUsage, batch, sweep, pending, historyCache,
                   productRows, productKeys, trxQueue>>

\* lines 400-406: the count is cached and returned
SC_Set(t) ==
    LET r == task[t] IN
    /\ r.pc = "sc_set"
    /\ stockCountCache' = Entry(r.data)
    /\ task' = [task EXCEPT ![t].pc = "done", ![t].res = OK]
    /\ UNCHANGED <<users, transactions, balanceCache, lockStatusCache,
                   dailyLimitCache, locks, users0, stock, productCache,
                   identity, products, dailyUsage, batch, sweep, pending, historyCache,
                   productRows, productKeys, trxQueue>>

\* the tables of the catalogue, with the count of the available rows cached
\* by an earlier get_stock_count or not
InitCount ==
    /\ users = [g \in Growids |-> NoUser]
    /\ users0 = users
    /\ stock \in CatalogStocks
    /\ products \in {ProductRow(STATUS_AVAILABLE), ProductRow(STATUS_DELETED)}
    /\ transactions = <<>>
    /\ balanceCache = [g \in Growids |-> NoEntry(ZeroBalance)]
    /\ lockStatusCache = [g \in Growids |-> NoEntry(FALSE)]
    /\ dailyLimitCache = [g \in Growids |-> NoEntry(0)]
    /\ locks = {}
    /\ task = [t \in Tasks |-> IdleTask]
    /\ productCache = NoEntry(0)
    /\ dailyUsage = [g \in Growids |-> 0]
    /\ identity = [u \in Buyers |-> NONE]
    /\ stockCountCache \in {NoEntry(0), Entry(stock_count)}
    /\ batch = NoBatch
    /\ sweep = NoSweep
    /\ pending = {}
    /\ historyCache = [g \in Growids |-> NoEntry(<<>>)]
    /\ productRows = {}
    /\ productKeys = {}
    /\ trxQueue = NoQueue

NextCount ==
    \E t \in Tasks :
        \/ StartAddStock(t)
        \/ AddStockStep(t)
        \/ StartDelete(t)
        \/ DeleteStep(t)
        \/ StartCount(t)
        \/ SC_Cache(t)
        \/ SC_Set(t)

SpecCount == InitCount /\ [][NextCount]_vars

(***************************************************************************)
(* update_balance with a heuristic or a callback that raises               *)
(***************************************************************************)
NextHeuristic ==
    \E t \in Tasks :
        \/ StartUpdate(t)
        \/ UpdateStep(t)
        \/ UB_WriteAlertFault(t)

SpecHeuristic == Init /\ [][NextHeuristic]_vars

(***************************************************************************)
(* BalanceCallbackManager.trigger (balance_manager.py 58-65) and           *)
(* TransactionCallbackManager.trigger (trx.py 292-299), which have the     *)
(* same body.  A callback is what it does when awaited: it returns or it   *)
(* raises                                                                  *)
(***************************************************************************)
CallbackKinds == {"returns", "raises"}
MaxCallbacks == 3
Registered == UNION {[1..n -> CallbackKinds] : n \in 0..MaxCallbacks}
CALLBACK_RAISED == "callback raised"

\* a loop body without the try block
unguarded_call(kind) == IF kind = "raises" THEN "raised" ELSE "returned"
\* lines 62-65: the exception of the callback is caught and logged
guarded_call(kind) == "returned"

\* an operation reaches its trigger(event, ...) with the callbacks that
\* were registered for the event, in registration order
StartTrigger(t) ==
    /\ task[t].op = "idle"
    /\ \E callbacks \in Registered :
          task' = [task EXCEPT ![t] = [IdleTask EXCEPT !.op = "trigger",
                                          !.pc = "tg_call", !.data = callbacks,
                                          !.qty = 1, !.content = <<>>]]
    /\ UNCHANGED <<users, transactions, balanceCache, lockStatusCache,
                   dailyLimitCache, locks, users0, stock, productCache,
                   identity, products, dailyUsage,
                   stockCountCache, batch, sweep, pending, historyCache,
                   productRows, productKeys, trxQueue>>

\* lines 61-65: the next callback is awaited; content is history, the
\* callbacks invoked so far
TG_Call(t) ==
    LET r == task[t] IN
    /\ r.pc = "tg_call"
    /\ r.qty <= Len(r.data)
    /\ task' = [task EXCEPT ![t] =
                  IF guarded_call(r.data[r.qty]) = "raised"
                  THEN [r EXCEPT !.content = Append(@, r.qty), !.pc = "done",
                                 !.res = CALLBACK_RAISED]
                  ELSE [r EXCEPT !.content = Append(@, r.qty), !.qty = @ + 1]]
    /\ UNCHANGED <<users, transactions, balanceCache, lockStatusCache,
                   dailyLimitCache, locks, users0, stock, productCache,
                   identity, products, dailyUsage,
                   stockCountCache, batch, sweep, pending, historyCache,
                   productRows, productKeys, trxQueue>>

\* the loop is over: trigger returns and the operation returns its result
TG_Return(t) ==
    LET r == task[t] IN
    /\ r.pc = "tg_call"
    /\ r.qty > Len(r.data)
    /\ task' = [task EXCEPT ![t].pc = "done", ![t].res = OK]
    /\ UNCHANGED <<users, transactions, balanceCache, lockStatusCache,
                   dailyLimitCache, locks, users0, stock, productCache,
                   identity, products, dailyUsage,
                   stockCountCache, batch, sweep, pending, historyCache,
                   productRows, productKeys, trxQueue>>

InitEvents ==
    /\ users = [g \in Growids |-> NoUser]
    /\ users0 = users
    /\ stock = InitStock(0)
    /\ InitCommon

NextEvents == \E t \in Tasks : StartTrigger(t) \/ TG_Call(t) \/ TG_Return(t)

SpecEvents == InitEvents /\ [][NextEvents]_vars

(***************************************************************************)
(* get_transaction_history (balance_manager.py 945-990).  A history is a   *)
(* list of rows of the table transactions, each row named by its position  *)
(* in the table (rows are only ever appended)                              *)
(***************************************************************************)
NO_HISTORY == "No transaction history"
MaxLimit == 2
MaxOffset == 1
Limits == 1..MaxLimit
Offsets == 0..MaxOffset

\* WHERE growid = ? ORDER BY created_at DESC over the first n rows of the
\* table: the rows of the growid, newest first
RECURSIVE newest_first(_, _)
newest_first(g, n) ==
    IF n = 0 THEN <<>>
    ELSE IF transactions[n].growid = g
         THEN <<n>> \o newest_first(g, n - 1)
         ELSE newest_first(g, n - 1)

\* LIMIT ? OFFSET ?
window(rows, limit, offset) ==
    [k \in 1..Max(0, (IF Len(rows) - offset < limit THEN Len(rows) - offset
                      ELSE limit)) |-> rows[offset + k]]

\* cached[:limit]
first_rows(rows, limit) == window(rows, limit, 0)

\* key is history: the number of rows in the table when the call was made
StartHistory(t) ==
    /\ task[t].op = "idle"
    /\ \E g \in Growids, limit \in Limits, offset \in Offsets :
          task' = [task EXCEPT ![t] =
                      [IdleTask EXCEPT !.op = "history", !.pc = "gh_cache",
                                       !.g = g, !.qty = limit, !.amt = offset,
                                       !.key = Len(transactions)]]
    /\ UNCHANGED <<users, transactions, balanceCache, lockStatusCache,
                   dailyLimitCache, locks, users0, stock, productCache,
                   identity, products, dailyUsage,
                   stockCountCache, batch, sweep, pending, historyCache,
                   productRows, productKeys, trxQueue>>

\* lines 952-955: the entry trx_history_<growid>, whatever call stored it,
\* is returned cut to the limit; an empty list counts as absent
GH_Cache(t) ==
    LET r == task[t]
        cached == historyCache[r.g]
    IN
    /\ r.pc = "gh_cache"
    /\ \E hit \in Hits(cached) :
          IF hit /\ cached.val # <<>>
          THEN /\ task' = [task EXCEPT ![t].pc = "done", ![t].res = OK,
                                       ![t].data = first_rows(cached.val, r.qty)]
               /\ UNCHANGED historyCache
          ELSE /\ task' = [task EXCEPT ![t].pc = "gh_select"]
               /\ historyCache' =
                     IF hit THEN historyCache
                     ELSE [historyCache EXCEPT ![r.g] = NoEntry(<<>>)]
    /\ UNCHANGED <<users, transactions, balanceCache, lockStatusCache,
                   dailyLimitCache, locks, users0, stock, productCache,
                   identity, products, dailyUsage,
                   stockCountCache, batch, sweep, pending,
                   productRows, productKeys, trxQueue>>

\* lines 957-971: the query
GH_Select(t) ==
    LET r == task[t] IN
    /\ r.pc = "gh_select"
    /\ task' = [task EXCEPT ![t].pc = "gh_set",
                            ![t].data = window(newest_first(r.g, Len(transactions)),
                                               r.qty, r.amt)]
    /\ UNCHANGED <<users, transactions, balanceCache, lockStatusCache,
                   dailyLimitCache, locks, users0, stock, productCache,
                   identity, products, dailyUsage,
                   stockCountCache, batch, sweep, pending, historyCache,
                   productRows, productKeys, trxQueue>>

\* lines 973-982: the rows of the query are stored under the key of the
\* growid and returned
GH_Set(t) ==
    LET r == task[t] IN
    /\ r.pc = "gh_set"
    /\ historyCache' = [historyCache EXCEPT ![r.g] = Entry(r.data)]
    /\ task' = [task EXCEPT ![t].pc = "done",
                            ![t].res = IF r.data = <<>> THEN NO_HISTORY ELSE OK]
    /\ UNCHANGED <<users, transactions, balanceCache, lockStatusCache,
                   dailyLimitCache, locks, users0, stock, productCache,
                   identity, products, dailyUsage,
                   stockCountCache, batch, sweep, pending,
                   productRows, productKeys, trxQueue>>

HistoryStep(t) == GH_Cache(t) \/ GH_Select(t) \/ GH_Set(t)

\* a row that an earlier admin_add of 1 wl left in the table
EarlierRow(g, old) ==
    [growid |-> g, type |-> TYPE_ADMIN_ADD, old |-> Balance(old, 0, 0),
     new |-> Balance(old + 1, 0, 0), amount_wl |-> 1, by |-> "t1",
     overlap |-> FALSE]

\* A has the rows of two earlier admin_add calls, B has none; no call is in
\* progress and nothing is cached
InitHistory ==
    /\ users = [g \in Growids |->
                   IF g = "A" THEN UserRow(2, 0, 0, DEFAULT_DAILY_LIMIT)
                   ELSE UserRow(0, 0, 0, DEFAULT_DAILY_LIMIT)]
    /\ users0 = users
    /\ stock = InitStock(0)
    /\ transactions = <<EarlierRow("A", 0), EarlierRow("A", 1)>>
    /\ balanceCache = [g \in Growids |-> NoEntry(ZeroBalance)]
    /\ lockStatusCache = [g \in Growids |-> NoEntry(FALSE)]
    /\ dailyLimitCache = [g \in Growids |-> NoEntry(0)]
    /\ locks = {}
    /\ task = [t \in Tasks |-> IdleTask]
    /\ productCache = NoEntry(0)
    /\ products = ProductRow(STATUS_AVAILABLE)
    /\ dailyUsage = [g \in Growids |-> 0]
    /\ Background
    /\ identity = [u \in Buyers |-> IF users[user_growid(u)].exists
                                     THEN user_growid(u) ELSE NONE]

NextHistory ==
    \E t \in Tasks :
        \/ StartHistory(t)
        \/ HistoryStep(t)
        \/ StartAdminUpdate(t)
        \/ UpdateStep(t)

SpecHistory == InitHistory /\ [][NextHistory]_vars

(***************************************************************************)
(* reduce_stock (cache_manager.py 590-704)                                 *)
(***************************************************************************)
ATTRIBUTE_ERROR == "AttributeError"
WORLD_INFO_NOT_FOUND == "WORLD_INFO_NOT_FOUND"
STATUS_REDUCED == "reduced"

\* an enumeration that had the member reduce_stock asks for
StatusWithReduced == {"AVAILABLE", "SOLD", "DELETED", "REDUCED"}
\* the members of the enumeration Status (constants.py 93-96)
Status == {"AVAILABLE", "SOLD", "DELETED"}

\* get_available_stock (416-447) on the rows of the table
available_rows(k) ==
    FirstRows({s \in DOMAIN stock : stock[s].status = STATUS_AVAILABLE}, k)

\* lines 633-643: UPDATE stock SET status = ? WHERE id = ?, for each row
stock_reduced(ids) ==
    [s \in DOMAIN stock |->
        IF s \in ids THEN [stock[s] EXCEPT !.status = STATUS_REDUCED]
        ELSE stock[s]]

ReduceQuantities == 0..MaxQty

StartReduce(t) ==
    /\ CatalogIdle(t)
    /\ \E q \in ReduceQuantities :
          task' = [task EXCEPT ![t] =
                      [IdleTask EXCEPT !.op = "reduce_stock", !.pc = "rs_lock",
                                       !.qty = q, !.prior = Returned]]
    /\ UNCHANGED <<users, transactions, balanceCache, lockStatusCache,
                   dailyLimitCache, locks, users0, stock, productCache,
                   identity, products, dailyUsage,
                   stockCountCache, batch, sweep, pending, historyCache,
                   productRows, productKeys, trxQueue>>

\* lines 597-602
RS_Lock(t) ==
    LET r == task[t] IN
    /\ r.pc = "rs_lock"
    /\ r.qty <= 0 \/ ~locked(Key("stock_reduce", PRODUCT))
    /\ IF r.qty <= 0
       THEN /\ task' = [task EXCEPT ![t].pc = "done", ![t].res = INVALID_AMOUNT]
            /\ UNCHANGED locks
       ELSE /\ locks' = locks \cup {Key("stock_reduce", PRODUCT)}
            /\ task' = [task EXCEPT ![t].pc = "rs_stock"]
    /\ UNCHANGED <<users, transactions, balanceCache, lockStatusCache,
                   dailyLimitCache, users0, stock, productCache, identity,
                   products, dailyUsage,
                   stockCountCache, batch, sweep, pending, historyCache,
                   productRows, productKeys, trxQueue>>

RS_LockTimeout(t) ==
    LET r == task[t] IN
    /\ r.pc = "rs_lock"
    /\ r.qty > 0
    /\ locked(Key("stock_reduce", PRODUCT))
    /\ task' = [task EXCEPT ![t].pc = "done", ![t].res = LOCK_ACQUISITION_FAILED]
    /\ UNCHANGED <<users, transactions, balanceCache, lockStatusCache,
                   dailyLimitCache, locks, users0, stock, productCache,
                   identity, products, dailyUsage,
                   stockCountCache, batch, sweep, pending, historyCache,
                   productRows, productKeys, trxQueue>>

\* lines 604-613 and 699-703.  conn is assigned at line 625 only: when the
\* call returns at line 608 or 610, the finally block reads the unassigned
\* conn at line 701, the UnboundLocalError leaves reduce_stock and
\* release_lock is not reached
RS_Stock(t) ==
    LET r == task[t]
        rows == available_rows(r.qty)
    IN
    /\ r.pc = "rs_stock"
    /\ task' = [task EXCEPT ![t] =
                  IF Cardinality(rows) < r.qty
                  THEN [r EXCEPT !.pc = "done", !.res = UNBOUND_LOCAL]
                  ELSE [r EXCEPT !.pc = "rs_world", !.sel = rows]]
    /\ UNCHANGED <<users, transactions, balanceCache, lockStatusCache,
                   dailyLimitCache, locks, users0, stock, productCache,
                   identity, products, dailyUsage,
                   stockCountCache, batch, sweep, pending, historyCache,
                   productRows, productKeys, trxQueue>>

\* lines 615-622: get_world_info (707-744) finds the row and its owner, or
\* does not; the error return passes the same finally block
RS_World(t) ==
    LET r == task[t] IN
    /\ r.pc = "rs_world"
    /\ \E found \in BOOLEAN :
          task' = [task EXCEPT ![t] =
                      IF found THEN [r EXCEPT !.pc = "rs_write"]
                      ELSE [r EXCEPT !.pc = "done", !.res = UNBOUND_LOCAL,
                                     !.err = WORLD_INFO_NOT_FOUND]]
    /\ UNCHANGED <<users, transactions, balanceCache, lockStatusCache,
                   dailyLimitCache, locks, users0, stock, productCache,
                   identity, products, dailyUsage,
                   stockCountCache, batch, sweep, pending, historyCache,
                   productRows, productKeys, trxQueue>>

\* lines 624-646 and 693-703: the first UPDATE evaluates Status.REDUCED; the
\* enumeration has no such member, the AttributeError rolls the transaction
\* back (line 695) and becomes the error response of line 699; the lock is
\* released
RS_Write(t) ==
    LET r == task[t] IN
    /\ r.pc = "rs_write"
    /\ IF "REDUCED" \in Status
       THEN /\ stock' = stock_reduced(r.sel)
            /\ stockCountCache' = NoEntry(0)
            /\ task' = [task EXCEPT ![t].pc = "rs_notify"]
            /\ UNCHANGED locks
       ELSE /\ locks' = locks \ {Key("stock_reduce", PRODUCT)}
            /\ task' = [task EXCEPT ![t].pc = "done", ![t].res = ATTRIBUTE_ERROR]
            /\ UNCHANGED <<stock, stockCountCache>>
    /\ UNCHANGED <<users, transactions, balanceCache, lockStatusCache,
                   dailyLimitCache, users0, productCache, identity,
                   products, dailyUsage,
                   batch, sweep, pending, historyCache,
                   productRows, productKeys, trxQueue>>

ReduceStep(t) ==
    \/ RS_Lock(t)
    \/ RS_LockTimeout(t)
    \/ RS_Stock(t)
    \/ RS_World(t)
    \/ RS_Write(t)

\* reduce_stock next to delete_product
NextReduce ==
    \E t \in Tasks :
        \/ StartReduce(t)
        \/ ReduceStep(t)
        \/ StartDelete(t)
        \/ DeleteStep(t)

SpecReduce == InitCatalog /\ [][NextReduce]_vars

(***************************************************************************)
(* create_product (product_manager.py 350-410) with get_product (252-306)  *)
(***************************************************************************)
MIN_PRICE == 1
Codes == {"P01", "p01", "P02"}
Prices == {0, 1}

\* the code without its letter case, as COLLATE NOCASE compares it
nocase(c) == IF c \in {"P01", "p01"} THEN "p01" ELSE "p02"

\* the codes of the rows of the table products
product_codes ==
    productRows \cup (IF products.exists THEN {PRODUCT} ELSE {})

\* a comparison that distinguishes letter case
select_binary(c) == {x \in product_codes : x = c}
\* line 271: SELECT * FROM products WHERE code = ? COLLATE NOCASE
select_nocase(c) == {x \in product_codes : nocase(x) = nocase(c)}

\* the cache entry product_<code>
product_entry(c) ==
    IF c = PRODUCT THEN productCache
    ELSE IF c \in productKeys THEN Entry(ProductRow(STATUS_AVAILABLE))
    ELSE NoEntry(0)

\* sel is history: the codes of the table when the call is made
StartCreate(t) ==
    /\ CatalogIdle(t)
    /\ \E c \in Codes, price \in Prices :
          task' = [task EXCEPT ![t] =
                      [IdleTask EXCEPT !.op = "create_product", !.pc = "cp_lock",
                                       !.content = c, !.qty = price,
                                       !.sel = product_codes]]
    /\ UNCHANGED <<users, transactions, balanceCache, lockStatusCache,
                   dailyLimitCache, locks, users0, stock, productCache,
                   identity, products, dailyUsage,
                   stockCountCache, batch, sweep, pending, historyCache,
                   productRows, productKeys, trxQueue>>

\* lines 352-357: the price, then the lock product_create_<code>
CP_Lock(t) ==
    LET r == task[t] IN
    /\ r.pc = "cp_lock"
    /\ r.qty < MIN_PRICE \/ ~locked(Key("product_create", r.content))
    /\ IF r.qty < MIN_PRICE
       THEN /\ task' = [task EXCEPT ![t].pc = "done", ![t].res = INVALID_AMOUNT]
            /\ UNCHANGED locks
       ELSE /\ locks' = locks \cup {Key("product_create", r.content)}
            /\ task' = [task EXCEPT ![t].pc = "cp_cache"]
    /\ UNCHANGED <<users, transactions, balanceCache, lockStatusCache,
                   dailyLimitCache, users0, stock, productCache, identity,
                   products, dailyUsage,
                   stockCountCache, batch, sweep, pending, historyCache,
                   productRows, productKeys, trxQueue>>

CP_LockTimeout(t) ==
    LET r == task[t] IN
    /\ r.pc = "cp_lock"
    /\ r.qty >= MIN_PRICE
    /\ locked(Key("product_create", r.content))
    /\ task' = [task EXCEPT ![t].pc = "done", ![t].res = LOCK_ACQUISITION_FAILED]
    /\ UNCHANGED <<users, transactions, balanceCache, lockStatusCache,
                   dailyLimitCache, locks, users0, stock, productCache,
                   identity, products, dailyUsage,
                   stockCountCache, batch, sweep, pending, historyCache,
                   productRows, productKeys, trxQueue>>

\* line 361 with get_product lines 254-265, and lines 362-363, 406-409: an
\* entry product_<code> makes get_product succeed and the call return
\* "already exists"; that return passes the finally block, which reads conn
\* (line 407) before line 365 has assigned it: the UnboundLocalError leaves
\* create_product and release_lock is not reached
CP_Cache(t) ==
    LET r == task[t] IN
    /\ r.pc = "cp_cache"
    /\ \E hit \in Hits(product_entry(r.content)) :
          task' = [task EXCEPT ![t] =
                      IF hit THEN [r EXCEPT !.pc = "done", !.res = UNBOUND_LOCAL]
                      ELSE [r EXCEPT !.pc = "cp_select"]]
    /\ UNCHANGED <<users, transactions, balanceCache, lockStatusCache,
                   dailyLimitCache, locks, users0, stock, productCache,
                   identity, products, dailyUsage,
                   stockCountCache, batch, sweep, pending, historyCache,
                   productRows, productKeys, trxQueue>>

\* get_product lines 267-277 and create_product lines 362-376: when the
\* SELECT finds no row, get_product returns without another await and the
\* INSERT and the commit follow in the same stretch
CP_Select(t) ==
    LET r == task[t] IN
    /\ r.pc = "cp_select"
    /\ IF select_nocase(r.content) # {}
       THEN /\ task' = [task EXCEPT ![t].pc = "cp_found"]
            /\ UNCHANGED <<products, productRows>>
       ELSE /\ task' = [task EXCEPT ![t].pc = "cp_set"]
            /\ IF r.content = PRODUCT
               THEN /\ products' = ProductRow(STATUS_AVAILABLE)
                    /\ UNCHANGED productRows
               ELSE /\ productRows' = productRows \cup {r.content}
                    /\ UNCHANGED products
    /\ UNCHANGED <<users, transactions, balanceCache, lockStatusCache,
                   dailyLimitCache, locks, users0, stock, productCache,
                   identity, dailyUsage,
                   stockCountCache, batch, sweep, pending, historyCache,
                   productKeys,
                   trxQueue>>

\* the entry product_<code> is written
cached_product(c) ==
    [cache |-> IF c = PRODUCT THEN Entry(products) ELSE productCache,
     keys |-> IF c = PRODUCT THEN productKeys ELSE productKeys \cup {c}]

\* get_product lines 279-298 (the row that was found is cached under the
\* code of the call), then create_product lines 362-363 and 406-409 as in
\* CP_Cache
CP_Found(t) ==
    LET r == task[t] IN
    /\ r.pc = "cp_found"
    /\ productCache' = cached_product(r.content).cache
    /\ productKeys' = cached_product(r.content).keys
    /\ task' = [task EXCEPT ![t].pc = "done", ![t].res = UNBOUND_LOCAL]
    /\ UNCHANGED <<users, transactions, balanceCache, lockStatusCache,
                   dailyLimitCache, locks, users0, stock,
                   identity, products, dailyUsage,
                   stockCountCache, batch, sweep, pending, historyCache,
                   productRows, trxQueue>>

\* lines 378-394: the new row is cached
CP_Set(t) ==
    LET r == task[t] IN
    /\ r.pc = "cp_set"
    /\ productCache' = cached_product(r.content).cache
    /\ productKeys' = cached_product(r.content).keys
    /\ task' = [task EXCEPT ![t].pc = "cp_return"]
    /\ UNCHANGED <<users, transactions, balanceCache, lockStatusCache,
                   dailyLimitCache, locks, users0, stock,
                   identity, products, dailyUsage,
                   stockCountCache, batch, sweep, pending, historyCache,
                   productRows, trxQueue>>

\* lines 396-399 and 405-409: the callback, the response, the release
CP_Return(t) ==
    LET r == task[t] IN
    /\ r.pc = "cp_return"
    /\ locks' = locks \ {Key("product_create", r.content)}
    /\ task' = [task EXCEPT ![t].pc = "done", ![t].res = OK]
    /\ UNCHANGED <<users, transactions, balanceCache, lockStatusCache,
                   dailyLimitCache, users0, stock, productCache, identity,
                   products, dailyUsage,
                   stockCountCache, batch, sweep, pending, historyCache,
                   productRows, productKeys, trxQueue>>

CreateStep(t) ==
    \/ CP_Lock(t)
    \/ CP_LockTimeout(t)
    \/ CP_Cache(t)
    \/ CP_Select(t)
    \/ CP_Found(t)
    \/ CP_Set(t)
    \/ CP_Return(t)

\* the table is empty or holds one earlier product
InitCreate ==
    /\ users = [g \in Growids |-> NoUser]
    /\ users0 = users
    /\ stock = InitStock(0)
    /\ products = NoProduct
    /\ transactions = <<>>
    /\ balanceCache = [g \in Growids |-> NoEntry(ZeroBalance)]
    /\ lockStatusCache = [g \in Growids |-> NoEntry(FALSE)]
    /\ dailyLimitCache = [g \in Growids |-> NoEntry(0)]
    /\ locks = {}
    /\ task = [t \in Tasks |-> IdleTask]
    /\ productCache = NoEntry(0)
    /\ dailyUsage = [g \in Growids |-> 0]
    /\ stockCountCache = NoEntry(0)
    /\ batch = NoBatch
    /\ sweep = NoSweep
    /\ pending = {}
    /\ historyCache = [g \in Growids |-> NoEntry(<<>>)]
    /\ productRows \in {{}, {"p01"}, {"P02"}}
    /\ productKeys \in SUBSET productRows
    /\ trxQueue = NoQueue
    /\ identity = [u \in Buyers |-> NONE]

NextCreate == \E t \in Tasks : StartCreate(t) \/ CreateStep(t)

SpecCreate == InitCreate /\ [][NextCreate]_vars

(***************************************************************************)
(* Purchases next to delete_product and reduce_stock                       *)
(***************************************************************************)
InitStable ==
    /\ users = [g \in Growids |-> UserRow(1, 1, 0, DEFAULT_DAILY_LIMIT)]
    /\ users0 = users
    /\ \E n \in 0..MaxStock : stock = InitStock(n)
    /\ InitCommon

NextStable ==
    \E t \in Tasks :
        \/ StartPurchase(t)
        \/ PurchaseStep(t)
        \/ StartAdminUpdate(t)
        \/ UpdateStep(t)
        \/ StartReduce(t)
        \/ ReduceStep(t)
        \/ StartDelete(t)
        \/ DeleteStep(t)

SpecStable == InitStable /\ [][NextStable]_vars

(***************************************************************************)
(* add_stock of product_manager.py next to delete_product of               *)
(* cache_manager.py, for a product that is not deleted at the start        *)
(***************************************************************************)
InitOrphan ==
    /\ users = [g \in Growids |-> NoUser]
    /\ users0 = users
    /\ stock \in CatalogStocks
    /\ products = ProductRow(STATUS_AVAILABLE)
    /\ InitCommon

NextOrphan ==
    \E t \in Tasks :
        \/ StartAddStock(t)
        \/ AddStockStep(t)
        \/ StartDelete(t)
        \/ DeleteStep(t)

SpecOrphan == InitOrphan /\ [][NextOrphan]_vars

(***************************************************************************)
(* TransactionQueue (trx.py 126-159), fed by PurchaseModal.on_submit       *)
(* (live_buttons.py 129-143)                                               *)
(***************************************************************************)
QUEUE_THRESHOLD == 10
MaxQueued == 2
QueuedQuantities == (QUEUE_THRESHOLD + 1)..(QUEUE_THRESHOLD + MaxQueued)

\* the methods of the class TransactionQueue
QueueMethods == {"__init__", "add_transaction", "process_queue"}

\* lines 147-153 for one item: process_transaction is looked up on the
\* queue; without the method the AttributeError is caught and logged at
\* lines 150-151 and the item is dropped
processed_by(items) ==
    IF "process_transaction" \in QueueMethods THEN items ELSE <<>>

\* live_buttons.py 129-136: a purchase of more than ten items goes to the
\* queue
StartAdd(t) ==
    /\ task[t].op = "idle"
    /\ \E u \in Buyers, q \in QueuedQuantities :
          task' = [task EXCEPT ![t] =
                      [IdleTask EXCEPT !.op = "add_transaction",
                                       !.pc = "aq_put", !.user = u, !.qty = q]]
    /\ UNCHANGED <<users, transactions, balanceCache, lockStatusCache,
                   dailyLimitCache, locks, users0, stock, productCache,
                   identity, products, dailyUsage,
                   stockCountCache, batch, sweep, pending, historyCache,
                   productRows, productKeys, trxQueue>>

\* the dictionary of lines 131-136; id is history, the call that queued it
queued(t) == [id |-> t, type |-> TYPE_PURCHASE, user_id |-> task[t].user,
              product_code |-> PRODUCT, quantity |-> task[t].qty]

\* add_transaction (134-138) and, when no loop is marked active,
\* process_queue (140-159).  put on an unbounded queue and get on a queue
\* that is not empty return without suspending, and the lookup of
\* process_transaction raises before anything is awaited, so the call runs
\* from the put to the end of the loop in one stretch
AQ_Add(t) ==
    LET r == task[t]
        items == Append(trxQueue.items, queued(t))
    IN
    /\ r.pc = "aq_put"
    /\ trxQueue' =
          IF trxQueue.processing
          THEN [trxQueue EXCEPT !.items = items]
          ELSE [items |-> <<>>, processing |-> FALSE,
                taken |-> trxQueue.taken \o items,
                processed |-> trxQueue.processed \o processed_by(items)]
    /\ task' = [task EXCEPT ![t].pc = "done", ![t].res = OK]
    /\ UNCHANGED <<users, transactions, balanceCache, lockStatusCache,
                   dailyLimitCache, locks, users0, stock, productCache,
                   identity, products, dailyUsage,
                   stockCountCache, batch, sweep, pending, historyCache,
                   productRows, productKeys>>

InitQueue ==
    /\ users = [g \in Growids |-> UserRow(1, 1, 0, DEFAULT_DAILY_LIMIT)]
    /\ users0 = users
    /\ \E n \in 0..MaxStock : stock = InitStock(n)
    /\ InitCommon

NextQueue == \E t \in Tasks : StartAdd(t) \/ AQ_Add(t)

SpecQueue == InitQueue /\ [][NextQueue]_vars

(***************************************************************************)
(* Properties of the balance service                                       *)
(***************************************************************************)
Plus(b, d) == [wl |-> b.wl + d.wl, dl |-> b.dl + d.dl, bgl |-> b.bgl + d.bgl]
BalanceOfRow(row) == [wl |-> row.wl, dl |-> row.dl, bgl |-> row.bgl]
RowsOf(g) == {i \in DOMAIN transactions : transactions[i].growid = g}

\* two tasks that each ran one update_balance on the same growid and both
\* returned success
BothSucceeded(t1, t2) ==
    /\ t1 # t2
    /\ task[t1].op = "update" /\ task[t2].op = "update"
    /\ task[t1].pc = "done" /\ task[t2].pc = "done"
    /\ task[t1].res = OK /\ task[t2].res = OK
    /\ task[t1].g = task[t2].g

\* C1: no lost update.  When two update_balance calls for the same growid
\* have both returned success, the ledger balance is the initial balance plus
\* both deltas, and exactly two transactions rows exist for the growid.
C1_NoLostUpdate ==
    \A t1, t2 \in Tasks :
        BothSucceeded(t1, t2) =>
            LET g == task[t1].g IN
            /\ BalanceOfRow(users[g]) =
                   Plus(Plus(BalanceOfRow(users0[g]), task[t1].d), task[t2].d)
            /\ Cardinality(RowsOf(g)) = 2

\* both calls were credits and the second commit happened while the first
\* call had not returned yet
C1_Witness ==
    \E t1, t2 \in Tasks :
        /\ BothSucceeded(t1, t2)
        /\ task[t1].d.wl > 0 /\ task[t2].d.wl > 0
        /\ \E i \in RowsOf(task[t1].g) : transactions[i].overlap

\* C3: non-negativity.  In every state each of balance_wl, balance_dl and
\* balance_bgl of every users row is >= 0.
C3_NonNegative ==
    \A g \in Growids :
        users[g].wl >= 0 /\ users[g].dl >= 0 /\ users[g].bgl >= 0

\* a withdrawal was committed and left a denomination at zero, and another
\* withdrawal was rejected
C3_Witness ==
    /\ \E i \in DOMAIN transactions :
          /\ transactions[i].amount_wl < 0
          /\ users[transactions[i].growid].wl = 0
    /\ \E t \in Tasks : task[t].pc = "done" /\ task[t].res = INSUFFICIENT_BALANCE

\* the ledger row lacks the amount withdrawn in one denomination
ShortIn(g, d) ==
    \/ (d.wl < 0 /\ -d.wl > users[g].wl)
    \/ (d.dl < 0 /\ -d.dl > users[g].dl)
    \/ (d.bgl < 0 /\ -d.bgl > users[g].bgl)

\* task t takes the step that reads the balance and decides on the delta
ReadStep(t) ==
    /\ task[t].pc = "ub_read"
    /\ task'[t] # task[t]
    /\ users[task[t].g].exists
    /\ ~users[task[t].g].is_locked

FailsWith(t, e) == task'[t].pc = "done" /\ task'[t].res = e

\* C4: per-denomination insufficiency.  An update_balance that withdraws
\* more of a denomination than the ledger row holds of it, once it holds the
\* balance_update lock of an existing, unlocked user, fails with
\* INSUFFICIENT_BALANCE and leaves the ledger balance and the transactions
\* rows unchanged, whatever the other denominations hold; the balance cache
\* keeps its content (at most a missing entry is filled with the unchanged
\* ledger balance).
C4_PerDenomination ==
    [][\A t \in Tasks :
          (ReadStep(t) /\ ShortIn(task[t].g, task[t].d)) =>
              LET g == task[t].g IN
              /\ FailsWith(t, INSUFFICIENT_BALANCE)
              /\ UNCHANGED <<users, transactions>>
              /\ \/ UNCHANGED balanceCache
                 \/ balanceCache' =
                        [balanceCache EXCEPT ![g] = Entry(RowBalance(g))]]_vars

\* C5: transfer atomicity under partial failure.  When transfer_balance has
\* returned after a successful debit of the sender and a failed credit of the
\* receiver, the sender's ledger balance equals its value before the call and
\* a transfer_rollback row exists for the sender (stated for a transfer that
\* ran while no other operation was in progress).
C5_TransferAtomicity ==
    \A t \in Tasks :
        (/\ task[t].op = "transfer" /\ task[t].pc = "done"
         /\ task[t].debit = OK
         /\ task[t].credit \notin {OK, NONE}
         /\ \A u \in Tasks \ {t} : task[u].op = "idle") =>
            /\ RowBalance(task[t].snd) = task[t].before
            /\ \E i \in RowsOf(task[t].snd) :
                  transactions[i].type = TYPE_TRANSFER_ROLLBACK

\* task t takes the step of update_balance that checks the daily limit
LimitStep(t) ==
    /\ task[t].pc = "ub_limit"
    /\ task'[t] # task[t]
    /\ users[task[t].g].exists

\* the update_balance that task t is in returns error e to its caller
UpdateReturns(t, e) ==
    IF task[t].op = "update" \/ task[t].phase = "debit"
    THEN FailsWith(t, e)
    ELSE IF task[t].phase = "credit" THEN task'[t].credit = e
         ELSE task'[t].rollback = e

\* the amount of task t's update_balance exceeds what is left of the limit
OverLimit(t) ==
    LET r == task[t] IN
    /\ r.ty # TYPE_ADMIN_ADD
    /\ users[r.g].exists /\ ~users[r.g].is_locked
    /\ get_daily_usage(r.g) + Abs(amount_wl(r.d)) > users[r.g].daily_limit

\* C8: daily limit rejection.  An update_balance of an unlocked user whose
\* type is not admin_add and whose absolute WL-equivalent delta plus today's
\* usage exceeds the daily_limit reaches the limit check, returns
\* DAILY_LIMIT_EXCEEDED there and leaves the ledger, the transactions rows
\* and the balance cache unchanged; an admin_add update always passes the
\* limit check, and its commit leaves the usage of the growid unchanged.
C8_DailyLimitRejection ==
    [][\A t \in Tasks :
          LET r == task[t] IN
          /\ (r.pc = "ub_locked" /\ task'[t] # r /\ OverLimit(t)) =>
                 task'[t].pc = "ub_limit"
          /\ (LimitStep(t) /\ OverLimit(t)) =>
                 /\ UpdateReturns(t, DAILY_LIMIT_EXCEEDED)
                 /\ UNCHANGED <<users, transactions, balanceCache>>
          /\ (LimitStep(t) /\ r.ty = TYPE_ADMIN_ADD) =>
                 task'[t].pc = "ub_acquire"
          /\ (r.pc = "ub_write" /\ task'[t] # r /\ r.ty = TYPE_ADMIN_ADD) =>
                 /\ Len(transactions') = Len(transactions) + 1
                 /\ UsageOf(transactions', r.g) = UsageOf(transactions, r.g)]_vars

\* today's committed mutations of a growid that are not admin_add
RECURSIVE CommittedOf(_, _)
CommittedOf(rows, g) ==
    IF rows = <<>> THEN 0
    ELSE (IF Head(rows).growid = g /\ Head(rows).type # TYPE_ADMIN_ADD
          THEN Abs(Head(rows).amount_wl) ELSE 0)
         + CommittedOf(Tail(rows), g)

\* C9: the daily limit is a ceiling.  In every state, for every growid, the
\* cumulative absolute WL-equivalent of today's committed mutations that are
\* not admin_add does not exceed the daily_limit of the growid.
C9_DailyLimitCeiling ==
    \A g \in Growids :
        users[g].exists => CommittedOf(transactions, g) <= users[g].daily_limit

\* C10: transfer deadlock freedom.  Two transfers in opposite directions are
\* never in a state where each holds its sender's transfer lock and waits
\* for the transfer lock the other holds.
C10_NoCircularWait ==
    ~ \E t1, t2 \in Tasks :
        /\ t1 # t2
        /\ task[t1].pc = "tr_lock_receiver" /\ task[t2].pc = "tr_lock_receiver"
        /\ task[t1].snd = task[t2].rcv /\ task[t1].rcv = task[t2].snd
        /\ locked(Key("transfer", task[t1].snd))
        /\ locked(Key("transfer", task[t2].snd))

\* the stock rows the product has (rows are never inserted or deleted while
\* the operations of the model run)
StockOnSale == {s \in StockIds : stock[s].status # STATUS_DELETED}

\* task t ran a purchase of one item whose buyer was registered, unlocked
\* and had the price in world locks, and the purchase has returned
BoughtOne(t) ==
    LET g == user_growid(task[t].user) IN
    /\ task[t].op = "purchase" /\ task[t].pc = "done"
    /\ task[t].qty = 1
    /\ users0[g].exists /\ ~users0[g].is_locked
    /\ users0[g].wl >= Price

\* C2: stock exclusivity.  No stock row is marked sold twice, and when two
\* purchases by different buyers for the single available item of the
\* product have both returned, exactly one of them succeeded.
C2_StockExclusivity ==
    /\ \A s \in StockIds : stock[s].sales <= 1
    /\ \A t1, t2 \in Tasks :
          (/\ t1 # t2
           /\ BoughtOne(t1) /\ BoughtOne(t2)
           /\ task[t1].user # task[t2].user
           /\ Cardinality(StockOnSale) = 1) =>
              Cardinality({t \in {t1, t2} : task[t].res = OK}) = 1

\* C6: purchase compensation.  When process_purchase has returned after its
\* debit failed (the selected rows were marked sold before the debit), the
\* selected rows are available with no buyer and the error returned is the
\* debit's (stated for a purchase that ran while no other operation was in
\* progress).
C6_PurchaseCompensation ==
    \A t \in Tasks :
        (/\ task[t].op = "purchase" /\ task[t].pc = "done"
         /\ task[t].debit \notin {OK, NONE}
         /\ \A u \in Tasks \ {t} : task[u].op = "idle") =>
            /\ \A s \in task[t].sel :
                  /\ stock[s].status = STATUS_AVAILABLE
                  /\ stock[s].buyer_id = NONE
            /\ task[t].res = task[t].debit

\* C7: insufficient stock fails cleanly.  A purchase of a valid quantity for
\* which the product has fewer available rows than the quantity does not
\* succeed, changes the status of no stock row, and leaves the balances and
\* the transactions table as they were (stated for a purchase that runs
\* while no other operation is in progress).
C7_InsufficientStock ==
    \A t \in Tasks :
        (/\ task[t].op = "purchase"
         /\ valid_quantity(task[t].qty)
         /\ Cardinality(StockOnSale) < task[t].qty
         /\ \A u \in Tasks \ {t} : task[u].op = "idle") =>
            /\ task[t].res # OK
            /\ \A s \in StockOnSale : stock[s].status = STATUS_AVAILABLE
            /\ users = users0
            /\ transactions = <<>>

\* the update_balance calls for growid g that hold balance_update_<g>: past
\* the acquisition of line 398 and before the release of line 527
InSection(g) ==
    {t \in Tasks : task[t].g = g /\
                    task[t].pc \in {"ub_read", "ub_write", "ub_cache", "ub_release"}}

\* C11: per-growid mutual exclusion.  At most one update_balance call for a
\* growid is between its read of the balance and its commit and cache
\* write, and the lock balance_update_<growid> is held exactly while such a
\* call exists, so that a call waits for the lock only because of a call for
\* the same growid.
C11_MutualExclusion ==
    \A g \in Growids :
        /\ Cardinality(InSection(g)) <= 1
        /\ locked(Key("balance_update", g)) <=> InSection(g) # {}

\* a call has written the ledger and not yet released the lock while a
\* second call for the same growid waits for the lock, and a call for the
\* other growid is not blocked
C11_Witness ==
    \E t, u \in Tasks :
        /\ t # u
        /\ task[t].g = task[u].g
        /\ task[t].pc = "ub_cache"
        /\ task[u].pc = "ub_acquire"
        /\ \E h \in Growids \ {task[t].g} : ~locked(Key("balance_update", h))

\* C12: no lock leak.  When no operation is in progress (every operation
\* that was started has returned) no keyed lock is held.
C12_NoLockLeak ==
    (\A t \in Tasks : task[t].pc = "done") => locks = {}

\* task t waits for a lock that another task holds
WaitsFor(t) ==
    LET r == task[t] IN
    \/ r.pc = "ub_acquire" /\ locked(Key("balance_update", r.g))
    \/ r.pc = "tr_lock_sender" /\ locked(Key("transfer", r.snd))
    \/ r.pc = "tr_lock_receiver" /\ locked(Key("transfer", r.rcv))
    \/ r.pc = "pp_lock" /\ valid_quantity(r.qty) /\ locked(Key("purchase", r.user))
    \/ r.pc = "pp_growid" /\ locked(Key("growid", r.user))
    \/ r.pc = "pp_sell" /\ locked(Key("stock_update", PRODUCT))

C14_RegistryContract ==
    [][\A t \in Tasks :
          /\ (task[t].pc = "lk_wait" /\ task'[t].pc = "done") =>
                 IF locked(task[t].key)
                 THEN task'[t].handle = NONE /\ locks' = locks
                 ELSE /\ task'[t].handle = task[t].key
                      /\ locks' = locks \cup {task[t].key}
          /\ (task'[t].op = "release_lock" /\ task'[t] # task[t]
                  /\ ~locked(task'[t].key)) =>
                 locks' = locks]_vars

\* a caller got None for a key that another caller holds, and a release of
\* a key that is not locked has been made
C14_Witness ==
    \E t, u \in Tasks :
        /\ t # u
        /\ task[t].op = "acquire_lock" /\ task[t].pc = "done"
        /\ task[t].handle = NONE /\ locked(task[t].key)
        /\ task[u].op = "release_lock" /\ ~locked(task[u].key)

\* register_user calls t1 and t2 have returned, t2 was made with the
\* arguments of t1 after t1 had returned with success
Reregistered(t1, t2) ==
    /\ t1 # t2
    /\ task[t1].op = "register" /\ task[t1].pc = "done"
    /\ task[t2].op = "register" /\ task[t2].pc = "done"
    /\ task[t1].user = task[t2].user /\ task[t1].g = task[t2].g
    /\ t1 \in task[t2].prior
    /\ task[t1].res = OK

\* C15: idempotent re-registration.  A second register_user with the
\* arguments of a first, successful one succeeds too; the growid has its
\* users row, with the balance it had when the second call began (and, for
\* a row older than both calls, when the first began), and the discord id
\* has its link to the growid.
C15_IdempotentRegistration ==
    \A t1, t2 \in Tasks :
        Reregistered(t1, t2) =>
            /\ task[t2].res = OK
            /\ users[task[t2].g].exists
            /\ RowBalance(task[t2].g) = task[t2].before
            /\ users0[task[t1].g].exists =>
                   RowBalance(task[t2].g) = task[t1].before
            /\ identity[task[t2].user] = task[t2].g

\* a growid was registered twice by the same user while its row held a
\* balance
C15_Witness ==
    \E t1, t2 \in Tasks :
        /\ Reregistered(t1, t2)
        /\ RowBalance(task[t2].g) # ZeroBalance

\* the other discord ids that are linked to a growid equal to g up to case
BoundToOther(u, g) ==
    {v \in Buyers \ {u} : identity[v] # NONE /\ LOWER(identity[v]) = LOWER(g)}

\* C16: exclusive growid binding.  register_user rejects a growid that,
\* compared without case, is linked to a different discord id, and after
\* every step no two discord ids are linked to the same growid.
C16_ExclusiveBinding ==
    [][/\ \A t \in Tasks :
             (/\ task[t].pc = "rg_write" /\ task'[t] # task[t]
              /\ BoundToOther(task[t].user, task[t].g) # {}) =>
                 /\ task'[t].pc = "done"
                 /\ task'[t].res = GROWID_EXISTS
       /\ \A u, v \in Buyers :
             (u # v /\ identity'[u] # NONE) =>
                 LOWER(identity'[u]) # LOWER(identity'[v])]_vars

\* the stock rows sold to user u
SoldTo(u) ==
    {s \in StockIds : stock[s].status = STATUS_SOLD /\ stock[s].buyer_id = u}

\* task t ran a purchase alone, the storage connection could be opened (a
\* failure to open it in get_growid leaves growid_<id> locked), and when it
\* began the buyer was registered and unlocked, held the total price in
\* world locks within the daily limit, and the product had the quantity in
\* available rows
HappyPurchase(t) ==
    LET r == task[t]
        g == user_growid(r.user)
    IN
    /\ r.op = "purchase" /\ r.pc = "done"
    /\ \A o \in Tasks \ {t} : task[o].op = "idle"
    /\ ~locked(Key("growid", r.user))
    /\ valid_quantity(r.qty)
    /\ users0[g].exists /\ ~users0[g].is_locked
    /\ users0[g].wl >= total_price(r)
    /\ total_price(r) <= users0[g].daily_limit
    /\ Cardinality(StockOnSale) >= r.qty

\* C17: purchase happy path.  Such a purchase returns success, the buyer's
\* wl balance is lower by price * quantity, exactly quantity rows are sold to
\* the buyer, and the transactions table holds exactly one row, of type
\* purchase with amount_wl = -(price * quantity).
C17_PurchaseHappyPath ==
    \A t \in Tasks :
        HappyPurchase(t) =>
            LET r == task[t]
                g == user_growid(r.user)
            IN
            /\ r.res = OK
            /\ users[g].wl = users0[g].wl - total_price(r)
            /\ users[g].dl = users0[g].dl /\ users[g].bgl = users0[g].bgl
            /\ Cardinality(SoldTo(r.user)) = r.qty
            /\ Len(transactions) = 1
            /\ transactions[1].type = TYPE_PURCHASE
            /\ transactions[1].growid = g
            /\ transactions[1].amount_wl = -total_price(r)

(***************************************************************************)
(* Properties of the catalogue                                             *)
(***************************************************************************)
\* two add_stock calls for the product with the same content after strip(),
\* both returned; the product has a row, and the content was in no row that
\* is not deleted when the earlier of the two was made
AddedTwice(t1, t2) ==
    /\ t1 # t2
    /\ task[t1].op = "add_stock" /\ task[t2].op = "add_stock"
    /\ task[t1].pc = "done" /\ task[t2].pc = "done"
    /\ task[t1].content \in Contents
    /\ task[t1].content = task[t2].content
    /\ task[t1].sel = {}
    /\ products.exists

NoDuplicateContent ==
    \A i, j \in DOMAIN stock :
        (i # j /\ stock[i].content = stock[j].content)
            => (stock[i].status = STATUS_DELETED \/ stock[j].status = STATUS_DELETED)

\* C18 as stated: of two add_stock calls with the same content, sequential
\* or concurrent, exactly one succeeds and the other fails with the
\* duplicate-content error, the count of available rows has grown by
\* exactly 1, and in every state no two rows that are not deleted hold the
\* same content.
C18_AsStated ==
    /\ NoDuplicateContent
    /\ \A t1, t2 \in Tasks :
          AddedTwice(t1, t2) =>
              /\ {task[t1].res, task[t2].res} = {OK, DUPLICATE_STOCK}
              /\ stock_count = task[t1].before + 1

\* C18, amended: of two add_stock calls with the same content exactly one
\* succeeds; the other fails with the duplicate-content error when it is
\* made after the first returned, and with the duplicate-content error or,
\* when its bounded wait for the content lock expires, with
\* LOCK_ACQUISITION_FAILED when the two are concurrent; the count of
\* available rows has grown by exactly 1; in every state no two rows that
\* are not deleted hold the same content.
C18_DuplicateRejection ==
    /\ NoDuplicateContent
    /\ \A t1, t2 \in Tasks :
          AddedTwice(t1, t2) =>
              /\ \/ {task[t1].res, task[t2].res} = {OK, DUPLICATE_STOCK}
                 \/ {task[t1].res, task[t2].res} = {OK, LOCK_ACQUISITION_FAILED}
              /\ t1 \in task[t2].prior =>
                    (task[t1].res = OK /\ task[t2].res = DUPLICATE_STOCK)
              /\ stock_count = task[t1].before + 1

\* a concurrent pair, the second rejected as a duplicate after waiting for
\* the lock of the first
C18_Witness ==
    \E t1, t2 \in Tasks :
        /\ AddedTwice(t1, t2)
        /\ t1 \notin task[t2].prior
        /\ task[t2].sel = {}
        /\ task[t1].res = OK
        /\ task[t2].res = DUPLICATE_STOCK

\* task t is at its call of update_stock_status (the sale of trx.py 437 or
\* the compensation of trx.py 453) with at least one requested id that is
\* not available
UpdatesUnavailable(t) ==
    /\ task[t].pc \in {"pp_sell", "pp_compensate"}
    /\ ~all_updated(task[t].sel)

\* C19: update_stock_status is all-or-nothing: when at least one requested
\* id is not available at update time, the call fails and no stock row, the
\* requested ids that were available included, changes status or buyer.
C19_AllOrNothing ==
    [][\A t \in Tasks :
          (UpdatesUnavailable(t) /\ task'[t] # task[t]) =>
              /\ stock' = stock
              /\ task'[t].pc = "pp_fail"
              /\ task[t].pc = "pp_sell" =>
                    task'[t].err \in {STOCK_UPDATE_FAILED, LOCK_ACQUISITION_FAILED}]_vars

\* a sale of two rows was rejected because one of them had been sold in the
\* meantime, and the other row is still available
C19_Witness ==
    \E t \in Tasks :
        /\ task[t].op = "purchase"
        /\ task[t].err = STOCK_UPDATE_FAILED
        /\ Cardinality(task[t].sel) = 2
        /\ \E s \in task[t].sel : stock[s].status = STATUS_AVAILABLE
        /\ \E s \in task[t].sel : stock[s].status = STATUS_SOLD

\* the transaction of a delete_product call has committed
Committed(d) ==
    /\ task[d].op = "delete_product"
    /\ task[d].pc \in {"dp_cache", "dp_return"} \/ task[d].res = OK

\* reader r was called after delete_product call d returned success
ReadAfterDelete(r, d) ==
    /\ task[d].op = "delete_product" /\ task[d].pc = "done" /\ task[d].res = OK
    /\ task[r].op \in Readers /\ task[r].pc = "done"
    /\ d \in task[r].prior

\* C20: once delete_product has committed, the product has status deleted
\* and every stock row that was available is deleted while the rows that
\* were sold are still sold (the two updates are persisted together); after
\* it returned success, get_product and get_all_products, of either class,
\* no longer return the product.
C20_DeleteCascade ==
    \A d \in Tasks :
        /\ Committed(d) =>
              /\ products.status = STATUS_DELETED
              /\ \A s \in task[d].sel : stock[s].status = STATUS_DELETED
              /\ \A s \in task[d].data : stock[s].status = STATUS_SOLD
        /\ \A r \in Tasks : ReadAfterDelete(r, d) => ~task[r].data.exists

(***************************************************************************)
(* Properties of account locks and the balance cache                       *)
(***************************************************************************)
\* lock_balance call l of an existing account returned success, no
\* unlock_balance of that account has been called, and call c, an
\* update_balance, get_balance or transfer_balance involving the account,
\* was made after l returned and has returned
CalledWhileLocked(l, c) ==
    /\ task[l].op = "lock_balance" /\ task[l].pc = "done" /\ task[l].res = OK
    /\ users0[task[l].g].exists
    /\ \A u \in Tasks : ~(task[u].op = "unlock_balance" /\ task[u].g = task[l].g)
    /\ l \in task[c].prior
    /\ task[c].pc = "done"
    /\ \/ task[c].op \in {"update", "get_balance"} /\ task[c].g = task[l].g
       \/ task[c].op = "transfer" /\ task[l].g \in {task[c].snd, task[c].rcv}

RECURSIVE Increments(_, _)
Increments(rows, g) ==
    IF rows = <<>> THEN 0
    ELSE (IF Head(rows).growid = g /\ Head(rows).type # TYPE_ADMIN_ADD
          THEN Abs(Head(rows).amount_wl) ELSE 0)
         + Increments(Tail(rows), g)

\* the balance of g after the deltas of its Transaction rows
RECURSIVE Applied(_, _, _)
Applied(rows, g, b) ==
    IF rows = <<>> THEN b
    ELSE Applied(Tail(rows), g,
                 IF Head(rows).growid = g THEN Head(rows).new ELSE b)

\* C22: the new balance, the Transaction row and, except for admin_add, the
\* DailyUsage increment of an update_balance are persisted together or not
\* at all: in every state the ledger balance is the one of the last
\* Transaction row of the growid (the initial one without a row) and the
\* daily usage is the sum of the amounts of its rows that are not admin_add;
\* a call that failed inside the storage transaction has released the
\* balance_update lock.
C22_StorageAtomicity ==
    /\ \A g \in Growids :
          /\ users[g].exists =>
                RowBalance(g) = Applied(transactions, g, BalanceOfRow(users0[g]))
          /\ dailyUsage[g] = Increments(transactions, g)
    /\ (\A t \in Tasks : task[t].pc = "done") => locks = {}


(***************************************************************************)
(* Properties of the transaction manager                                   *)
(***************************************************************************)
\* what the result of an entry must be when the entry alone decides it
Corresponds(e, res) ==
    /\ ~(keys_read(e) \subseteq DOMAIN e) => res = KEY_ERROR
    /\ (keys_read(e) \subseteq DOMAIN e /\ e.type = TYPE_PURCHASE
            /\ ~valid_quantity(e.quantity)) => res = INVALID_QUANTITY
    /\ (keys_read(e) \subseteq DOMAIN e /\ e.type = TYPE_DEPOSIT)
            => res = validate_deposit(deposit_amount(e.amount))
    /\ (keys_read(e) \subseteq DOMAIN e
            /\ e.type \notin {TYPE_PURCHASE, TYPE_DEPOSIT})
            => res = UNSUPPORTED_TYPE

\* C23: process_batch_transaction takes the entries one after another in
\* the order of the list; result i is the result of entry i; when it returns
\* there are as many results as entries, whatever entries failed or lacked
\* a key
C23_BatchResults ==
    LET b == batch IN
    /\ b.order = [k \in 1..Len(b.order) |-> k]
    /\ Len(b.results) <= Len(b.order)
    /\ Len(b.order) <= Len(b.results) + 1
    /\ Len(b.order) <= Len(b.input)
    /\ \A k \in DOMAIN b.results :
          /\ b.results[k].of = k
          /\ Corresponds(b.input[k], b.results[k].res)
    /\ b.pc = "returned" => Len(b.results) = Len(b.input)

\* a batch returned whose first entry lacked a key and whose second entry
\* was a purchase that succeeded
C23_Witness ==
    /\ batch.pc = "returned"
    /\ Len(batch.input) = 2
    /\ batch.results[1].res = KEY_ERROR
    /\ batch.input[2] = PurchaseEntry("1", 1)
    /\ batch.results[2].res = OK

\* C24: process_deposit with non-negative amounts of positive sum for a
\* registered user whose balance is not locked succeeds and writes one
\* deposit row that adds exactly the amounts; with a non-positive sum or a
\* negative amount it fails and writes nothing
C24_DepositContract ==
    \A t \in Tasks :
        (task[t].op = "deposit" /\ task[t].pc = "done") =>
            LET r == task[t]
                g == identity[r.user]
                rows == {i \in DOMAIN transactions : transactions[i].by = t}
            IN  IF /\ validate_deposit(upper_case_amount(r.d)) = OK
                   /\ g # NONE
                   /\ ~users[g].is_locked
                THEN /\ r.res = OK
                     /\ \E i \in DOMAIN transactions :
                           /\ rows = {i}
                           /\ transactions[i].type = TYPE_DEPOSIT
                           /\ transactions[i].growid = g
                           /\ transactions[i].new =
                                 [wl |-> transactions[i].old.wl + r.d.wl,
                                  dl |-> transactions[i].old.dl + r.d.dl,
                                  bgl |-> transactions[i].old.bgl + r.d.bgl]
                ELSE r.res # OK /\ rows = {}

\* C25: for every balance b with non-negative amounts (amounts of 1000 and
\* more included), Balance.from_string(b.format()) has the total of b
C25_RoundTrip ==
    \A t \in Tasks :
        (task[t].op = "format" /\ task[t].pc = "done") =>
            total_wl(task[t].new) = total_wl(task[t].cur)

\* C26: whatever is raised inside an iteration of
\* monitor_pending_transactions (the connection cannot be opened, the query
\* fails, a recovery fails), the sweep goes on to its next interval: the
\* loop never ends
C26_SweepNeverDies == sweep.pc # "crashed"

\* C27: in every sweep that completes, each row flagged pending is handed to
\* recover_failed_transaction and its type-specific recovery is attempted;
\* a row whose recovery fails stays pending for the next sweep
C27_SweepRecovery ==
    (sweep.pc = "finally" /\ sweep.rows = {} /\ sweep.handed # {}) =>
        \A row \in pending :
            (row.status = STATUS_PENDING /\ row.id \in sweep.handed
                /\ row.type \in {TYPE_PURCHASE, TYPE_DEPOSIT})
                => row.id \in sweep.attempted
\* an update_balance or a transfer is between its first and its last step
\* on the growid
UpdateInProgress(g) ==
    \E t \in Tasks :
        \/ task[t].pc \in InUpdate /\ task[t].g = g
        \/ task[t].op = "transfer" /\ task[t].pc # "done"
              /\ g \in {task[t].snd, task[t].rcv}

\* C28: whenever no update_balance of a growid is in progress, the cache
\* entry balance_<growid> is absent or equals the balance of the users row,
\* in every interleaving of get_balance calls with update_balance calls
C28_BalanceCacheConsistent ==
    \A g \in Growids :
        (~UpdateInProgress(g) /\ balanceCache[g].has /\ users[g].exists) =>
            balanceCache[g].val = RowBalance(g)


\* C29: a get_stock_count called after an inventory mutation has completed
\* (and with no other mutation running) returns the number of rows of the
\* product that are available, not a count cached before the mutation
C29_StockCountFresh ==
    \A c, m \in Tasks :
        (/\ task[c].op = "get_stock_count" /\ task[c].pc = "done"
         /\ m \in task[c].prior
         /\ task[m].op \in {"add_stock", "delete_product"}
         /\ task[m].res = OK)
            => task[c].res = OK /\ task[c].data = stock_count
\* C30: the suspicious-activity heuristic is advisory.  Whether it triggers
\* or not, and also when its query or a suspicious_activity callback
\* raises, the step of update_balance that follows writes the balance, the
\* transactions row and the daily usage that the inputs and the ledger call
\* for, and the call returns success
C30_HeuristicAdvisory ==
    [][\A t \in Tasks :
          /\ (task[t].pc = "ub_write" /\ task'[t] # task[t]) =>
                /\ users' = balance_written(task[t])
                /\ transactions' = transaction_inserted(t, task[t])
                /\ dailyUsage' = daily_usage_added(task[t])
                /\ task'[t].pc = "ub_cache"
          /\ (task'[t].op = "update" /\ task'[t].pc = "done"
                /\ task'[t].alert # NONE) => task'[t].res = OK]_vars

\* an update returned success after a suspicious_activity callback raised,
\* and another one after the query of the heuristic raised
C30_Witness ==
    \E t, u \in Tasks :
        /\ task[t].pc = "done" /\ task[t].alert = "callback_raised"
        /\ task[t].res = OK
        /\ task[u].pc = "done" /\ task[u].alert = "detect_raised"
        /\ task[u].res = OK
        /\ \E i \in DOMAIN transactions : transactions[i].by = t


(***************************************************************************)
(* Properties of the callbacks, the history, the catalogue and the queue   *)
(***************************************************************************)
\* C31: a callback that raises does not reach the operation that fired the
\* event (the operation returns its own result and nothing else changes),
\* and the callbacks registered after it are still invoked, in the order of
\* registration
C31_EventIsolation ==
    /\ \A t \in Tasks :
          task[t].op = "trigger" =>
              /\ task[t].content = [k \in 1..Len(task[t].content) |-> k]
              /\ task[t].pc = "done" =>
                    /\ task[t].res = OK
                    /\ Len(task[t].content) = Len(task[t].data)
    /\ users = users0 /\ transactions = <<>> /\ locks = {}

\* three callbacks of which the first raised, all invoked
C31_Witness ==
    \E t \in Tasks :
        /\ task[t].op = "trigger" /\ task[t].pc = "done"
        /\ Len(task[t].data) = 3 /\ task[t].data[1] = "raises"
        /\ task[t].data[3] = "returns"
        /\ task[t].content = <<1, 2, 3>>

\* C32: a history call that succeeds returns the rows offset+1 ..
\* offset+limit of the newest-first list of the growid's rows, as the table
\* stood at some moment of the call (so every row written before the call is
\* counted); a call for a growid without rows fails with NO_HISTORY
C32_HistoryWindow ==
    \A t \in Tasks :
        (task[t].op = "history" /\ task[t].pc = "done") =>
            \E n \in task[t].key..Len(transactions) :
                /\ task[t].res = OK =>
                      task[t].data = window(newest_first(task[t].g, n),
                                            task[t].qty, task[t].amt)
                /\ newest_first(task[t].g, n) = <<>> =>
                      task[t].res = NO_HISTORY

\* C33: a reduce_stock call that finds at least quantity available rows
\* (and the owner of the world) ends with exactly its quantity first
\* available rows in status reduced and reports success; a call that finds
\* fewer fails; no other row is ever reduced
C33_ReduceStock ==
    /\ \A t \in Tasks :
          (task[t].op = "reduce_stock" /\ task[t].pc = "done"
              /\ task[t].qty > 0 /\ task[t].res # LOCK_ACQUISITION_FAILED
              /\ task[t].err # WORLD_INFO_NOT_FOUND) =>
              IF task[t].sel # {}
              THEN /\ task[t].res = OK
                   /\ Cardinality(task[t].sel) = task[t].qty
                   /\ \A s \in task[t].sel : stock[s].status = STATUS_REDUCED
              ELSE task[t].res # OK
    /\ \A s \in DOMAIN stock :
          stock[s].status = STATUS_REDUCED =>
              \E t \in Tasks : task[t].op = "reduce_stock" /\ s \in task[t].sel

\* a call that is past its INSERT
Inserted(u) ==
    /\ task[u].op = "create_product"
    /\ task[u].pc \in {"cp_set", "cp_return", "done"}
    /\ task[u].res \in {NONE, OK}

RECURSIVE rows_of(_, _)
rows_of(g, n) ==
    IF n = 0 THEN <<>>
    ELSE IF transactions[n].growid = g
         THEN Append(rows_of(g, n - 1), transactions[n])
         ELSE rows_of(g, n - 1)

\* C35: for every growid, each Transaction row starts from the balance the
\* previous row of the growid ended with, the amount of each row is the
\* difference of the totals of its two balances, and the last row ends with
\* the balance of the users row
C35_LedgerChain ==
    \A g \in Growids :
        LET rows == rows_of(g, Len(transactions)) IN
        /\ \A k \in 1..Len(rows) :
              /\ k > 1 => rows[k].old = rows[k - 1].new
              /\ rows[k].amount_wl = total_wl(rows[k].new) - total_wl(rows[k].old)
        /\ Len(rows) > 0 => rows[Len(rows)].new = RowBalance(g)

\* the sum of the totals of all balances held by the given rows
held(rows) == total_wl(Balance(rows["A"].wl, rows["A"].dl, rows["A"].bgl))
              + total_wl(Balance(rows["B"].wl, rows["B"].dl, rows["B"].bgl))

\* C36: when transfer_balance calls are the only calls made and all have
\* returned, whatever their outcomes, the sum of the totals of sender and
\* receiver is what it was before; a single transfer that succeeded has
\* moved exactly its amount
C36_TransferConservation ==
    (\A t \in Tasks : task[t].pc = "done" /\ task[t].op \in {"idle", "transfer"})
        => /\ held(users) = held(users0)
           /\ \A t \in Tasks :
                 (/\ task[t].op = "transfer" /\ task[t].res = OK
                  /\ \A u \in Tasks \ {t} : task[u].op = "idle")
                    => /\ total_wl(RowBalance(task[t].snd))
                            = total_wl(task[t].before) - task[t].amt
                       /\ held(users) = held(users0)

\* the ledger balance of the growid of row n before row n was written
RECURSIVE balance_before(_, _)
balance_before(n, k) ==
    IF k = 0
    THEN Balance(users0[transactions[n].growid].wl,
                 users0[transactions[n].growid].dl,
                 users0[transactions[n].growid].bgl)
    ELSE IF transactions[k].growid = transactions[n].growid
         THEN transactions[k].new
         ELSE balance_before(n, k - 1)

\* C37: the total of every user's balance is at most MAX_AMOUNT; no
\* committed update took a ledger balance beyond it; and an update_balance
\* call whose delta would take the balance it read beyond the cap has failed,
\* has written no Transaction row and has left the users row and the cached
\* balance as they were
C37_BalanceCap ==
    /\ \A g \in Growids : total_wl(RowBalance(g)) <= MAX_AMOUNT
    /\ \A n \in DOMAIN transactions :
          total_wl(balance_before(n, n - 1)) + transactions[n].amount_wl
              <= MAX_AMOUNT
    /\ \A t \in Tasks :
          (/\ task[t].op = "update" /\ task[t].pc = "done"
           /\ total_wl(task[t].cur) + amount_wl(task[t].d) > MAX_AMOUNT) =>
              /\ task[t].res = INVALID_AMOUNT
              /\ \A n \in DOMAIN transactions : transactions[n].by # t
              /\ (\A u \in Tasks \ {t} : task[u].op = "idle") =>
                    /\ users = users0
                    /\ balanceCache[task[t].g].has =>
                          balanceCache[task[t].g].val = RowBalance(task[t].g)

\* a user at the cap: an addition was refused
C37_Witness ==
    \E t \in Tasks :
        /\ task[t].op = "update" /\ task[t].pc = "done"
        /\ total_wl(RowBalance(task[t].g)) = MAX_AMOUNT
        /\ amount_wl(task[t].d) > 0
        /\ task[t].res = INVALID_AMOUNT
        /\ transactions = <<>>

C39_NoOrphanStock ==
    (\A t \in Tasks : task[t].pc = "done") =>
        (products.status = STATUS_DELETED =>
            \A s \in DOMAIN stock : stock[s].status # STATUS_AVAILABLE)

\* the number of times the item queued by call t occurs in the list
RECURSIVE times(_, _)
times(items, t) ==
    IF items = <<>> THEN 0
    ELSE (IF Head(items).id = t THEN 1 ELSE 0) + times(Tail(items), t)

\* C40: whenever no process_queue loop is active, the queue is empty and
\* every transaction whose add_transaction has returned was taken from the
\* queue exactly once and processed exactly once
C40_QueueProcessed ==
    ~trxQueue.processing =>
        /\ trxQueue.items = <<>>
        /\ \A t \in Tasks :
              (task[t].op = "add_transaction" /\ task[t].pc = "done") =>
                  /\ times(trxQueue.taken, t) = 1
                  /\ times(trxQueue.processed, t) = 1
====
